---------------------------- MODULE Spec2Model ----------------------------
(***************************************************************************)
(* A model of the fundu duration parser.                                   *)
(*                                                                         *)
(* Two parsers of the repository are modelled:                             *)
(*                                                                         *)
(*  - src/src/lib.rs: DurationParser (the scanner) and DurationRepr::parse *)
(*    (the exact evaluator), composed by parse_duration.  Specification    *)
(*    SpecLib.                                                             *)
(*  - src/src/parsing/repr_parser.rs: ReprParser, the configurable scanner *)
(*    with the 8-digit block path.  Specification Spec.                    *)
(*                                                                         *)
(* Conventions.                                                            *)
(*  - A byte is an integer 0..255; the input is a sequence of bytes.       *)
(*  - Option<T> is a sequence of length at most one: None is <<>> and      *)
(*    Some(x) is <<x>>.                                                    *)
(*  - current_pos is zero based as in the source; the byte at position p   *)
(*    is input[p + 1].                                                     *)
(*  - A u64 is held as its decimal digit sequence without leading zeros    *)
(*    (zero is <<>>): 2^64 is beyond the integers of the model checker.    *)
(*    checked_mul(10) followed by checked_add(d) appends d and overflows   *)
(*    exactly when the new sequence denotes more than u64::MAX.            *)
(***************************************************************************)
EXTENDS Integers, Sequences, FiniteSets, TLC

VARIABLES
    input,          \* the bytes handed to the parser
    config,         \* the Config in use (ReprParser), <<>> for lib.rs
    time_units,     \* the time unit table in use (ReprParser)
    current_pos,    \* the cursor
    current_byte,   \* Option<byte>: the look-ahead byte
    duration_repr,  \* the intermediate representation under construction
    pc,             \* the place in the call: the part of parse() that is next,
                    \* "eval" (the scanner returned Ok, the evaluator is next),
                    \* "eval_more" (Ok with a continuation: input is left),
                    \* "done" (the evaluator returned), "segment_done" (it
                    \* returned and input is left), "scan_failed"
    result,         \* the outcome of the call
    src,            \* the parts the caller formatted the input from
    duration,       \* the sum of the segments evaluated so far (parse_multiple)
    calls           \* the number of calls of ReprParser::parse so far

vars ==
    <<input, config, time_units, current_pos, current_byte, duration_repr, pc, result, src,
      duration, calls>>

-----------------------------------------------------------------------------
(* Bytes and options *)

None == <<>>

Some(x) == <<x>>

IsSome(o) == Len(o) = 1

Unwrap(o) == o[1]

Ord ==
    [c \in {"0", "1", "2", "3", "4", "5", "6", "7", "8", "9", "+", "-", ".", " ",
            "e", "E", "i", "I", "n", "N", "f", "F", "t", "T", "y", "Y", "s", "m",
            "h", "d", "x", "a", "g", "o", "M", "w", "/", ":", "u", "r", "c", "k", "S"} |->
        CASE c = "0" -> 48 [] c = "1" -> 49 [] c = "2" -> 50 [] c = "3" -> 51
          [] c = "4" -> 52 [] c = "5" -> 53 [] c = "6" -> 54 [] c = "7" -> 55
          [] c = "8" -> 56 [] c = "9" -> 57 [] c = "+" -> 43 [] c = "-" -> 45
          [] c = "." -> 46 [] c = " " -> 32 [] c = "e" -> 101 [] c = "E" -> 69
          [] c = "i" -> 105 [] c = "I" -> 73 [] c = "n" -> 110 [] c = "N" -> 78
          [] c = "f" -> 102 [] c = "F" -> 70 [] c = "t" -> 116 [] c = "T" -> 84
          [] c = "y" -> 121 [] c = "Y" -> 89 [] c = "s" -> 115 [] c = "m" -> 109
          [] c = "h" -> 104 [] c = "d" -> 100 [] c = "x" -> 120 [] c = "a" -> 97
          [] c = "g" -> 103 [] c = "o" -> 111 [] c = "M" -> 77 [] c = "w" -> 119
          [] c = "/" -> 47 [] c = ":" -> 58 [] c = "u" -> 117 [] c = "r" -> 114
          [] c = "c" -> 99 [] c = "k" -> 107 [] c = "S" -> 83]

\* The bytes of a string given as a sequence of one-character strings.
B(chars) == [i \in 1..Len(chars) |-> Ord[chars[i]]]

Rep(x, n) == [i \in 1..n |-> x]

MinOf(a, b) == IF a <= b THEN a ELSE b

\* u8::is_ascii_digit
is_ascii_digit(b) == b \in 48..57

\* u8::to_ascii_lowercase
to_ascii_lowercase(b) == IF b \in 65..90 THEN b + 32 ELSE b

\* u8::eq_ignore_ascii_case
eq_ignore_ascii_case(a, b) == to_ascii_lowercase(a) = to_ascii_lowercase(b)

\* slice.get(pos): the byte at the zero based position, None past the end.
ByteAt(in, pos) == IF pos < Len(in) THEN Some(in[pos + 1]) ELSE None

\* The position of the first byte at or after pos that is no ASCII digit,
\* the input length when every remaining byte is a digit: where a loop
\* "while current_byte is a digit: advance" stops.
DigitRunEnd(in, pos) ==
    LET stops == {i \in pos..(Len(in) - 1) : ~is_ascii_digit(in[i + 1])}
    IN IF stops = {} THEN Len(in)
       ELSE CHOOSE e \in stops : \A o \in stops : e <= o

-----------------------------------------------------------------------------
(* u64 values as decimal digit sequences *)

U64_MAX == <<1, 8, 4, 4, 6, 7, 4, 4, 0, 7, 3, 7, 0, 9, 5, 5, 1, 6, 1, 5>>

\* The first index of ds holding a nonzero digit, Len(ds) + 1 when none.
FirstNonZero(ds) ==
    LET nz == {i \in 1..Len(ds) : ds[i] # 0}
    IN IF nz = {} THEN Len(ds) + 1
       ELSE CHOOSE i \in nz : \A j \in nz : i <= j

\* ds without its leading zeros.
Canon(ds) == SubSeq(ds, FirstNonZero(ds), Len(ds))

\* a < b for two digit sequences of the same length.
RECURSIVE LexLess(_, _, _)
LexLess(a, b, i) ==
    IF i > Len(a) THEN FALSE
    ELSE IF a[i] # b[i] THEN a[i] < b[i]
    ELSE LexLess(a, b, i + 1)

\* a <= b for two canonical digit sequences.
NumLeq(a, b) ==
    \/ Len(a) < Len(b)
    \/ Len(a) = Len(b) /\ (a = b \/ LexLess(a, b, 1))

\* A variant that takes u64::MAX itself for an overflow.
CheckedMul10Add_BelowMaxOnly(s, d) ==
    LET n == IF s = <<>> /\ d = 0 THEN <<>> ELSE Append(s, d)
    IN IF NumLeq(n, U64_MAX) /\ n # U64_MAX THEN Some(n) ELSE None

\* u64::checked_mul(10).and_then(|s| s.checked_add(d)): None on overflow.
CheckedMul10Add(s, d) ==
    LET n == IF s = <<>> /\ d = 0 THEN <<>> ELSE Append(s, d)
    IN IF NumLeq(n, U64_MAX) THEN Some(n) ELSE None

-----------------------------------------------------------------------------
(* Results and the cursor *)

NoResult == [kind |-> "none", error |-> "", pos |-> 0, secs |-> <<>>, nanos |-> 0]

\* Ok(Duration::new(secs, nanos))
Ok(secs, nanos) == [kind |-> "Ok", error |-> "", pos |-> 0, secs |-> secs, nanos |-> nanos]

\* Err(ParseError::<error>), with the byte position the error carries (0 when
\* the error kind carries none).
Err(error, pos) == [kind |-> "Err", error |-> error, pos |-> pos, secs |-> <<>>, nanos |-> 0]

\* The parser state as one value: the operators below map it to the state
\* after a step, the actions store it back into the variables.
Cur ==
    [input |-> input, current_pos |-> current_pos, current_byte |-> current_byte,
     duration_repr |-> duration_repr, pc |-> pc, result |-> result]

Become(p) ==
    /\ current_pos' = p.current_pos
    /\ current_byte' = p.current_byte
    /\ duration_repr' = p.duration_repr
    /\ pc' = p.pc
    /\ result' = p.result
    /\ UNCHANGED <<input, config, time_units, src, duration, calls>>

\* self.current_pos = pos; self.current_byte = self.input.get(pos)
SetCursor(p, pos) ==
    [p EXCEPT !.current_pos = pos, !.current_byte = ByteAt(p.input, pos)]

\* advance(): one byte forward.
advance(p) == SetCursor(p, p.current_pos + 1)

\* return Err(e) out of the scanner's parse(): the call is over and the
\* evaluator is not run.
Fail(p, e, pos) == [p EXCEPT !.pc = "scan_failed", !.result = Err(e, pos)]

-----------------------------------------------------------------------------
(* src/src/lib.rs: the evaluator *)

NANOS_MAX == 999999999

SECONDS_MAX == U64_MAX

\* The iteration of Seconds::parse from digit i on: seconds = seconds * 10 + c
\* with checked arithmetic; None is Err(ParseError::Overflow).
RECURSIVE SecondsLoop(_, _, _)
SecondsLoop(seconds, ds, i) ==
    IF i > Len(ds) THEN Some(seconds)
    ELSE LET r == CheckedMul10Add(seconds, ds[i])
         IN IF r = None THEN None ELSE SecondsLoop(Unwrap(r), ds, i + 1)

SecondsZeroCap == 20

\* A variant that chains at most 19 zeros: 10^19 fits in a u64.
Seconds_parse_NineteenZeros(s) ==
    LET ds == s.a \o s.b \o Rep(0, MinOf(s.zeros, SecondsZeroCap - 1))
    IN SecondsLoop(<<>>, ds, FirstNonZero(ds))

\* Seconds(a, b, zeros).parse(): the digits of a, then of b, then
\* min(zeros, 20) zeros.  The iterations over leading zeros leave seconds at 0
\* and are taken in one step.
Seconds_parse(s) ==
    LET ds == s.a \o s.b \o Rep(0, MinOf(s.zeros, SecondsZeroCap))
    IN SecondsLoop(<<>>, ds, FirstNonZero(ds))

RECURSIVE NanosLoop(_, _, _, _)
NanosLoop(nanos, multi, ds, i) ==
    IF i > Len(ds) THEN nanos
    ELSE NanosLoop(nanos + ds[i] * multi, multi \div 10, ds, i + 1)

NanosZeroCap == 9

NanosTake == 9

\* A variant that rounds on the tenth digit instead of dropping it.
Nanos_parse_Rounding(n) ==
    LET all == Rep(0, MinOf(n.zeros, NanosZeroCap)) \o n.a \o n.b
        ds  == SubSeq(all, 1, MinOf(NanosTake, Len(all)))
        up  == IF Len(all) > NanosTake /\ all[NanosTake + 1] >= 5 THEN 1 ELSE 0
    IN MinOf(NanosLoop(0, 100000000, ds, 1) + up, NANOS_MAX)

\* Nanos(zeros, a, b).parse(): min(zeros, 9) zeros, then a, then b; take(9).
Nanos_parse(n) ==
    LET all == Rep(0, MinOf(n.zeros, NanosZeroCap)) \o n.a \o n.b
        ds  == SubSeq(all, 1, MinOf(NanosTake, Len(all)))
    IN NanosLoop(0, 100000000, ds, 1)

\* The match on self.exponent.cmp(&0) with the second case for
\* whole.len() < exponent_abs only: at whole.len() == exponent_abs the seconds
\* of the last case.
Repartition_BoundaryToLastCase(whole, fract, exponent) ==
    LET exponent_abs == IF exponent < 0 THEN -exponent ELSE exponent
        wl == Len(whole)
        fl == Len(fract)
    IN CASE exponent < 0 /\ wl > exponent_abs ->
              [seconds |-> [a |-> SubSeq(whole, 1, wl - exponent_abs), b |-> <<>>, zeros |-> 0],
               nanos   |-> [zeros |-> 0, a |-> SubSeq(whole, wl - exponent_abs + 1, wl), b |-> fract]]
         [] exponent < 0 /\ wl < exponent_abs ->
              [seconds |-> [a |-> <<>>, b |-> <<>>, zeros |-> 0],
               nanos   |-> [zeros |-> exponent_abs - wl, a |-> whole, b |-> fract]]
         [] exponent = 0 ->
              [seconds |-> [a |-> whole, b |-> <<>>, zeros |-> 0],
               nanos   |-> [zeros |-> 0, a |-> fract, b |-> <<>>]]
         [] exponent > 0 /\ fl > exponent_abs ->
              [seconds |-> [a |-> whole, b |-> SubSeq(fract, 1, exponent_abs), zeros |-> 0],
               nanos   |-> [zeros |-> 0, a |-> SubSeq(fract, exponent_abs + 1, fl), b |-> <<>>]]
         [] OTHER ->
              [seconds |-> [a |-> whole, b |-> fract, zeros |-> exponent_abs - fl],
               nanos   |-> [zeros |-> 0, a |-> <<>>, b |-> <<>>]]

\* The match on self.exponent.cmp(&0) of DurationRepr::parse: the slices that
\* make up the seconds and the nano seconds.
Repartition(whole, fract, exponent) ==
    LET exponent_abs == IF exponent < 0 THEN -exponent ELSE exponent
        wl == Len(whole)
        fl == Len(fract)
    IN CASE exponent < 0 /\ wl > exponent_abs ->
              [seconds |-> [a |-> SubSeq(whole, 1, wl - exponent_abs), b |-> <<>>, zeros |-> 0],
               nanos   |-> [zeros |-> 0, a |-> SubSeq(whole, wl - exponent_abs + 1, wl), b |-> fract]]
         [] exponent < 0 /\ wl <= exponent_abs ->
              [seconds |-> [a |-> <<>>, b |-> <<>>, zeros |-> 0],
               nanos   |-> [zeros |-> exponent_abs - wl, a |-> whole, b |-> fract]]
         [] exponent = 0 ->
              [seconds |-> [a |-> whole, b |-> <<>>, zeros |-> 0],
               nanos   |-> [zeros |-> 0, a |-> fract, b |-> <<>>]]
         [] exponent > 0 /\ fl > exponent_abs ->
              [seconds |-> [a |-> whole, b |-> SubSeq(fract, 1, exponent_abs), zeros |-> 0],
               nanos   |-> [zeros |-> 0, a |-> SubSeq(fract, exponent_abs + 1, fl), b |-> <<>>]]
         [] OTHER ->
              [seconds |-> [a |-> whole, b |-> fract, zeros |-> exponent_abs - fl],
               nanos   |-> [zeros |-> 0, a |-> <<>>, b |-> <<>>]]

\* A variant whose saturated nanos are one more than NANOS_MAX.
SecondsAndNanos_NanosPastMax(parts) ==
    LET seconds == Seconds_parse(parts.seconds)
    IN IF seconds = None
       THEN [seconds |-> SECONDS_MAX, nanos |-> NANOS_MAX + 1]
       ELSE [seconds |-> Unwrap(seconds), nanos |-> Nanos_parse(parts.nanos)]

\* Seconds overflow is the maximum Duration; otherwise the nanos are parsed.
SecondsAndNanos(parts) ==
    LET seconds == Seconds_parse(parts.seconds)
    IN IF seconds = None
       THEN [seconds |-> SECONDS_MAX, nanos |-> NANOS_MAX]
       ELSE [seconds |-> Unwrap(seconds), nanos |-> Nanos_parse(parts.nanos)]

\* A variant that looks at the seconds only.
SignFinalization_SecondsOnly(is_negative, seconds, nanos) ==
    IF is_negative /\ seconds = <<>> THEN Ok(<<>>, 0)
    ELSE IF is_negative THEN Err("Syntax", 0)
    ELSE Ok(seconds, nanos)

\* The sign at the end of DurationRepr::parse.
SignFinalization(is_negative, seconds, nanos) ==
    IF is_negative /\ seconds = <<>> /\ nanos = 0 THEN Ok(<<>>, 0)
    ELSE IF is_negative THEN Err("Syntax", 0)
    ELSE Ok(seconds, nanos)

\* A variant that ignores the sign of an infinity.
InfinityResult_IgnoresSign(is_negative) == Ok(SECONDS_MAX, NANOS_MAX)

\* is_infinite at the head of DurationRepr::parse.
InfinityResult(is_negative) ==
    IF is_negative THEN Err("Syntax", 0) ELSE Ok(SECONDS_MAX, NANOS_MAX)

\* DurationRepr::parse
DurationRepr_parse(repr) ==
    IF repr.is_infinite THEN InfinityResult(repr.is_negative)
    ELSE IF repr.whole = None /\ repr.fract = None THEN Err("Syntax", 0)
    ELSE LET whole == IF repr.whole = None THEN <<>> ELSE Unwrap(repr.whole)
             fract == IF repr.fract = None THEN <<>> ELSE Unwrap(repr.fract)
             sn    == SecondsAndNanos(Repartition(whole, fract, repr.exponent))
         IN SignFinalization(repr.is_negative, sn.seconds, sn.nanos)

-----------------------------------------------------------------------------
(* src/src/lib.rs: DurationParser, the scanner *)

\* DurationRepr::default()
LibDefaultRepr ==
    [is_negative |-> FALSE, is_infinite |-> FALSE, whole |-> None, fract |-> None,
     exponent |-> 0, unit |-> "Second"]

\* DurationParser::parse_sign_is_negative: [err, neg, p].
DurationParser_parse_sign_is_negative(p) ==
    IF p.current_byte = None THEN [err |-> Some("Syntax"), neg |-> FALSE, p |-> p]
    ELSE IF Unwrap(p.current_byte) = Ord["+"] THEN [err |-> None, neg |-> FALSE, p |-> advance(p)]
    ELSE IF Unwrap(p.current_byte) = Ord["-"] THEN [err |-> None, neg |-> TRUE, p |-> advance(p)]
    ELSE [err |-> None, neg |-> FALSE, p |-> p]

\* DurationParser::parse_digits(max): every digit of the run is consumed, the
\* first max of them are pushed.  [err, digits, p].
DurationParser_parse_digits(p, max) ==
    LET end    == DigitRunEnd(p.input, p.current_pos)
        kept   == MinOf(end - p.current_pos, max)
        digits == [k \in 1..kept |-> p.input[p.current_pos + k] - 48]
    IN [err    |-> IF digits = <<>> THEN Some("Syntax") ELSE None,
        digits |-> digits,
        p      |-> SetCursor(p, end)]

INFINITY == B(<<"i", "n", "f", "i", "n", "i", "t", "y">>)

\* The loop of DurationParser::parse_infinity from expected[pos] on, then the
\* check for the end of input: [err, p].
RECURSIVE InfinityLoop(_, _)
InfinityLoop(p, pos) ==
    IF pos >= Len(INFINITY)
    THEN [err |-> IF p.current_byte = None THEN None ELSE Some("Syntax"), p |-> p]
    ELSE IF p.current_byte = None
         THEN [err |-> IF pos = 3 THEN None ELSE Some("Syntax"), p |-> p]
    ELSE IF eq_ignore_ascii_case(Unwrap(p.current_byte), INFINITY[pos + 1])
         THEN InfinityLoop(advance(p), pos + 1)
    ELSE [err |-> Some("Syntax"), p |-> p]

DurationParser_parse_infinity(p) == InfinityLoop(p, 0)

\* TimeUnit::try_from(&[u8])
TimeUnit_try_from(bytes) ==
    CASE bytes = B(<<"n", "s">>) -> Some("NanoSecond")
      [] bytes = B(<<"m", "m", "s">>) -> Some("MicroSecond")
      [] bytes = B(<<"m", "s">>) -> Some("MilliSecond")
      [] bytes = B(<<"s">>) -> Some("Second")
      [] bytes = B(<<"m">>) -> Some("Minute")
      [] bytes = B(<<"h">>) -> Some("Hour")
      [] bytes = B(<<"d">>) -> Some("Day")
      [] OTHER -> None

\* DurationParser::parse_time_unit: up to 3 bytes are taken.  [err, unit, p].
DurationParser_parse_time_unit(p) ==
    LET n     == MinOf(3, Len(p.input) - p.current_pos)
        bytes == SubSeq(p.input, p.current_pos + 1, p.current_pos + n)
        unit  == TimeUnit_try_from(bytes)
    IN [err  |-> IF unit = None THEN Some("Syntax") ELSE None,
        unit |-> IF unit = None THEN "Second" ELSE Unwrap(unit),
        p    |-> SetCursor(p, p.current_pos + n)]

LibMinExponentAbs == 1022

LibMaxExponent == 1023

\* The loop of DurationParser::parse_exponent: [err, exponent, p].  The i16
\* product exponent * 10 + digit is at most 10239 here and cannot overflow.
RECURSIVE LibExponentLoop(_, _, _)
LibExponentLoop(p, is_negative, exponent) ==
    IF p.current_byte = None \/ ~is_ascii_digit(Unwrap(p.current_byte))
    THEN [err |-> None, exponent |-> IF is_negative THEN -exponent ELSE exponent, p |-> p]
    ELSE LET e == exponent * 10 + (Unwrap(p.current_byte) - 48)
         IN IF (is_negative /\ e <= LibMinExponentAbs) \/ (~is_negative /\ e <= LibMaxExponent)
            THEN LibExponentLoop(advance(p), is_negative, e)
            ELSE [err |-> Some("Overflow"), exponent |-> 0, p |-> p]

\* DurationParser::parse_exponent
DurationParser_parse_exponent(p) ==
    LET sign == DurationParser_parse_sign_is_negative(p)
    IN IF sign.err # None THEN [err |-> sign.err, exponent |-> 0, p |-> sign.p]
       ELSE LibExponentLoop(sign.p, sign.neg, 0)

LibWholeMax == 1043

LibFractMax == 1033

\* return Ok(duration_repr) out of DurationParser::parse: the evaluator is next.
LibReturn(p) == [p EXCEPT !.pc = "eval"]

\* DurationParser::parse, "parse the sign if present".
LibSignStep(p) ==
    LET sign == DurationParser_parse_sign_is_negative(p)
    IN IF sign.err # None THEN Fail(p, Unwrap(sign.err), 0)
       ELSE [sign.p EXCEPT !.duration_repr.is_negative = sign.neg, !.pc = "whole"]

\* DurationParser::parse, "parse infinity or the whole number part".
LibWholeStep(p) ==
    IF p.current_byte = None THEN Fail(p, "Syntax", 0)
    ELSE LET byte == Unwrap(p.current_byte)
         IN IF byte = Ord["i"] \/ byte = Ord["I"]
            THEN LET inf == DurationParser_parse_infinity(p)
                 IN IF inf.err # None THEN Fail(inf.p, Unwrap(inf.err), 0)
                    ELSE LibReturn([inf.p EXCEPT !.duration_repr.is_infinite = TRUE])
            ELSE IF is_ascii_digit(byte)
            THEN LET whole == DurationParser_parse_digits(p, LibWholeMax)
                 IN IF whole.err # None THEN Fail(whole.p, Unwrap(whole.err), 0)
                    ELSE [whole.p EXCEPT !.duration_repr.whole = Some(whole.digits),
                                         !.pc = "fract"]
            ELSE IF byte = Ord["."] THEN [p EXCEPT !.pc = "fract"]
            ELSE Fail(p, "Syntax", 0)

\* DurationParser::parse, "parse the fraction number part".
LibFractStep(p) ==
    IF p.current_byte = None THEN LibReturn(p)
    ELSE LET byte == Unwrap(p.current_byte)
         IN IF byte = Ord["."]
            THEN LET q == advance(p)
                 IN IF q.current_byte = None THEN LibReturn(q)
                    ELSE IF is_ascii_digit(Unwrap(q.current_byte))
                    THEN LET fract == DurationParser_parse_digits(q, LibFractMax)
                         IN IF fract.err # None THEN Fail(fract.p, Unwrap(fract.err), 0)
                            ELSE [fract.p EXCEPT !.duration_repr.fract = Some(fract.digits),
                                                 !.pc = "exponent"]
                    ELSE IF eq_ignore_ascii_case(Unwrap(q.current_byte), Ord["e"])
                    THEN [q EXCEPT !.pc = "exponent"]
                    ELSE Fail(q, "Syntax", 0)
            ELSE IF eq_ignore_ascii_case(byte, Ord["e"]) THEN [p EXCEPT !.pc = "exponent"]
            ELSE Fail(p, "Syntax", 0)

\* DurationParser::parse, "parse the exponent of the input if present".
LibExponentStep(p) ==
    IF p.current_byte = None THEN LibReturn(p)
    ELSE IF eq_ignore_ascii_case(Unwrap(p.current_byte), Ord["e"])
    THEN LET exp == DurationParser_parse_exponent(advance(p))
         IN IF exp.err # None THEN Fail(exp.p, Unwrap(exp.err), 0)
            ELSE [exp.p EXCEPT !.duration_repr.exponent = exp.exponent, !.pc = "unit"]
    ELSE Fail(p, "Syntax", 0)

\* DurationParser::parse, the time unit after the exponent.
LibUnitStep(p) ==
    IF p.current_byte = None THEN LibReturn(p)
    ELSE LET unit == DurationParser_parse_time_unit(p)
         IN IF unit.err # None THEN Fail(unit.p, Unwrap(unit.err), 0)
            ELSE [unit.p EXCEPT !.duration_repr.unit = unit.unit, !.pc = "end"]

\* DurationParser::parse, "check we've reached the end of input".
LibEndStep(p) ==
    IF p.current_byte = None THEN LibReturn(p) ELSE Fail(p, "Syntax", 0)

\* parse_duration: .and_then(|mut repr| repr.parse())
LibEvalStep(p) ==
    [p EXCEPT !.pc = "done", !.result = DurationRepr_parse(p.duration_repr)]

\* DurationParser::new(input), at the head of DurationParser::parse.
LibStart(in) ==
    [input |-> in, current_pos |-> 0, current_byte |-> ByteAt(in, 0),
     duration_repr |-> LibDefaultRepr, pc |-> "sign", result |-> NoResult]

\* One step of parse_duration from the state p.
LibStep(p) ==
    CASE p.pc = "sign" -> LibSignStep(p)
      [] p.pc = "whole" -> LibWholeStep(p)
      [] p.pc = "fract" -> LibFractStep(p)
      [] p.pc = "exponent" -> LibExponentStep(p)
      [] p.pc = "unit" -> LibUnitStep(p)
      [] p.pc = "end" -> LibEndStep(p)
      [] p.pc = "eval" -> LibEvalStep(p)
      [] OTHER -> p

\* parse_duration(string): the seven steps in a row (a step leaves a
\* finished call as it is).
parse_duration(in) ==
    LibStep(LibStep(LibStep(LibStep(LibStep(LibStep(LibStep(LibStart(in)))))))).result

-----------------------------------------------------------------------------
(* The inputs: format!("{sign}{whole}.{fract}e{exp}{tail}") *)

\* The decimal digits of a natural number, none for 0.
RECURSIVE DecDigits(_)
DecDigits(n) == IF n = 0 THEN <<>> ELSE Append(DecDigits(n \div 10), n % 10)

\* The bytes of a digit sequence.
DigitBytes(ds) == [i \in 1..Len(ds) |-> ds[i] + 48]

\* An integer as Display writes it.
FormatInt(n) ==
    IF n = 0 THEN B(<<"0">>)
    ELSE IF n < 0 THEN B(<<"-">>) \o DigitBytes(DecDigits(-n))
    ELSE DigitBytes(DecDigits(n))

\* The input string of the parts: the sign, the whole digits, the point and
\* the fraction digits when there is a point, "e" and the exponent when there
\* is one, and the tail.
Format(s) ==
    s.sign \o DigitBytes(s.whole)
        \o (IF s.point THEN B(<<".">>) \o DigitBytes(s.fract) ELSE <<>>)
        \o (IF s.exp = None THEN <<>> ELSE B(<<"e">>) \o FormatInt(Unwrap(s.exp)))
        \o s.tail

MaxWholeLen == 2

MaxFractLen == 2

PieceDigits == {0, 9}

\* Every digit sequence over PieceDigits of length at most n.
DigitStrings(n) == UNION {[1..k -> PieceDigits] : k \in 0..n}

U64_MAX_PLUS_1 == <<1, 8, 4, 4, 6, 7, 4, 4, 0, 7, 3, 7, 0, 9, 5, 5, 1, 6, 1, 6>>

Signs == {<<>>, B(<<"+">>), B(<<"-">>)}

LibWholes ==
    DigitStrings(MaxWholeLen)
        \cup {<<1>>, <<1, 0>>, U64_MAX, U64_MAX_PLUS_1, Rep(0, LibWholeMax) \o <<1>>}

LibFracts ==
    DigitStrings(MaxFractLen)
        \cup {<<1>>, Rep(9, 9), Rep(0, 8) \o <<1>>, Rep(0, 9) \o <<1>>, Rep(9, 17),
              Rep(0, 7) \o <<1>>}

LibExps == {None} \cup {Some(e) : e \in {0, 1, -1, 2, -2, 20, 1023, 1024, -1022, -1023}}

LibTails ==
    {<<>>, B(<<"e">>), B(<<"e", "+">>), B(<<"e", "+", "F">>), B(<<"e", "+", "s">>),
     B(<<"E", "1">>), B(<<"e", "-", "0">>), B(<<"e", "1", "s">>), B(<<"s">>), B(<<" ">>)}

InfinityTails ==
    {B(<<"i", "n", "f">>), B(<<"i", "N", "f">>), B(<<"I", "N", "F">>),
     B(<<"i", "n", "f", "i", "n", "i", "t", "y">>),
     B(<<"I", "n", "f", "i", "N", "i", "t", "Y">>),
     B(<<"i", "n", "f", "i", "n">>), B(<<"i", "n", "f", "1", ".", "0">>),
     B(<<"i", "n", "f", "i", "n", "i", "t", "y", "x">>), B(<<"i">>)}

\* The numbers: every combination of the parts, a tail only where there is no
\* formatted exponent, and no fraction digits without a point.
NumberSrcs(wholes, fracts, exps, tails) ==
    {s \in [sign : Signs, whole : wholes, point : BOOLEAN, fract : fracts,
            exp : exps, tail : tails] :
        /\ s.exp = None \/ s.tail = <<>>
        /\ s.point \/ s.fract = <<>>}

\* The infinity tokens, and the inputs that start with an 'i'.
InfinitySrcs ==
    [sign : Signs, whole : {<<>>}, point : {FALSE}, fract : {<<>>}, exp : {None},
     tail : InfinityTails]

LibSrcs == NumberSrcs(LibWholes, LibFracts, LibExps, LibTails) \cup InfinitySrcs

-----------------------------------------------------------------------------
(* Specification SpecLib: parse_duration of src/src/lib.rs *)

InitLib ==
    /\ src \in LibSrcs
    /\ input = Format(src)
    /\ config = None
    /\ time_units = None
    /\ current_pos = 0
    /\ current_byte = ByteAt(input, 0)
    /\ duration_repr = LibDefaultRepr
    /\ pc = "sign"
    /\ result = NoResult
    /\ duration = [secs |-> <<>>, nanos |-> 0]
    /\ calls = 1

LibParseSign == pc = "sign" /\ Become(LibSignStep(Cur))

LibParseWhole == pc = "whole" /\ Become(LibWholeStep(Cur))

LibParseFract == pc = "fract" /\ Become(LibFractStep(Cur))

LibParseExponent == pc = "exponent" /\ Become(LibExponentStep(Cur))

LibParseTimeUnit == pc = "unit" /\ Become(LibUnitStep(Cur))

LibCheckEnd == pc = "end" /\ Become(LibEndStep(Cur))

LibEvaluate == pc = "eval" /\ Become(LibEvalStep(Cur))

NextLib ==
    \/ LibParseSign
    \/ LibParseWhole
    \/ LibParseFract
    \/ LibParseExponent
    \/ LibParseTimeUnit
    \/ LibCheckEnd
    \/ LibEvaluate

SpecLib == InitLib /\ [][NextLib]_vars

-----------------------------------------------------------------------------
(* The value an intermediate representation denotes, digit by digit *)

\* The number a digit sequence of at most 9 digits denotes.
RECURSIVE DigitsValue(_)
DigitsValue(ds) ==
    IF ds = <<>> THEN 0
    ELSE 10 * DigitsValue(SubSeq(ds, 1, Len(ds) - 1)) + ds[Len(ds)]

\* The digits of whole.fract * 10^exponent before the decimal point: the
\* point sits after digit Len(whole) + exponent of whole \o fract.
RefSecondsDigits(whole, fract, exponent) ==
    LET d == whole \o fract
        p == Len(whole) + exponent
    IN IF p <= 0 THEN <<>>
       ELSE IF p <= Len(d) THEN SubSeq(d, 1, p)
       ELSE d \o Rep(0, p - Len(d))

\* The first 9 digits of whole.fract * 10^exponent after the decimal point,
\* zeros where the digits end.
RefNanoDigits(whole, fract, exponent) ==
    LET d == whole \o fract
        p == Len(whole) + exponent
    IN [i \in 1..9 |-> IF p + i >= 1 /\ p + i <= Len(d) THEN d[p + i] ELSE 0]

IrWhole == IF duration_repr.whole = None THEN <<>> ELSE Unwrap(duration_repr.whole)

IrFract == IF duration_repr.fract = None THEN <<>> ELSE Unwrap(duration_repr.fract)

IrSeconds == Canon(RefSecondsDigits(IrWhole, IrFract, duration_repr.exponent))

IrNanos == DigitsValue(RefNanoDigits(IrWhole, IrFract, duration_repr.exponent))

\* The evaluator has run on a number: not infinity, and a whole or a fraction
\* part was scanned.
LibEvaluatedNumber ==
    /\ pc = "done"
    /\ ~duration_repr.is_infinite
    /\ duration_repr.whole # None \/ duration_repr.fract # None

-----------------------------------------------------------------------------
(* Claims about parse_duration of src/src/lib.rs, under SpecLib *)

\* The decimal form of a u64: "0", or digits without a leading zero that
\* denote at most u64::MAX.
IsU64Decimal(w) ==
    \/ w = <<0>>
    \/ w # <<>> /\ w[1] # 0 /\ NumLeq(w, U64_MAX)

\* The input is the decimal form of (s, n): s, a '.', and n in at most 9
\* fraction digits, default unit, no sign, no exponent.
C1_Case ==
    /\ src.sign = <<>> /\ src.exp = None /\ src.tail = <<>> /\ src.point
    /\ IsU64Decimal(src.whole)
    /\ Len(src.fract) \in 1..9

\* C1: parsing the decimal string formed by s in 0..=u64::MAX, a '.', and n
\* written in 9 digits returns exactly (seconds = s, nanos = n); a shorter
\* fraction such as ".1" counts from the left (100_000_000).  No digit is
\* lost and nothing saturates.
C1_ExactRoundTrip ==
    (pc \in {"done", "scan_failed"} /\ C1_Case) =>
        result = Ok(Canon(src.whole),
                    DigitsValue(src.fract \o Rep(0, 9 - Len(src.fract))))

C1_Witness ==
    /\ pc = "done" /\ C1_Case
    /\ src.whole = U64_MAX /\ src.fract = Rep(9, 9)
    /\ result = Ok(U64_MAX, 999999999)

\* C2: every successful result has nanos in 0..=999_999_999.
C2_NanosInRange ==
    result.kind = "Ok" => result.nanos \in 0..999999999

C2_Witness ==
    /\ pc = "done" /\ result.kind = "Ok" /\ result.nanos = 999999999
    /\ duration_repr.exponent # 0 /\ result.secs # U64_MAX

\* C3: for a non-negative number, when the seconds digits after applying the
\* exponent denote more than u64::MAX the result is exactly
\* (u64::MAX, 999_999_999), and otherwise the seconds are exactly that value.
C3_SaturatesExactlyAboveMax ==
    (LibEvaluatedNumber /\ ~duration_repr.is_negative) =>
        IF NumLeq(IrSeconds, U64_MAX)
        THEN result.kind = "Ok" /\ result.secs = IrSeconds
        ELSE result = Ok(U64_MAX, 999999999)

C3_Witness ==
    /\ LibEvaluatedNumber /\ ~duration_repr.is_negative
    /\ ~NumLeq(IrSeconds, U64_MAX)
    /\ duration_repr.exponent > 0
    /\ result = Ok(U64_MAX, 999999999)

\* C4: for a non-negative number whose seconds do not saturate, the nanos are
\* the first 9 digits after the decimal point (after the exponent shift,
\* zeros where digits are missing); later digits are dropped, not rounded,
\* and carry into nothing.
C4_NanosTruncated ==
    (LibEvaluatedNumber /\ ~duration_repr.is_negative /\ NumLeq(IrSeconds, U64_MAX)) =>
        result = Ok(IrSeconds, IrNanos)

C4_Witness ==
    /\ LibEvaluatedNumber /\ ~duration_repr.is_negative
    /\ IrFract = Rep(9, 17) /\ duration_repr.exponent = 0
    /\ result.kind = "Ok" /\ result.nanos = 999999999 /\ result.secs = Canon(IrWhole)

MaxShift == 2

\* The exponent of the parts, 0 when none is written.
SrcExponent(s) == IF s.exp = None THEN 0 ELSE Unwrap(s.exp)

\* The same number with the decimal point k places further left and the
\* exponent k higher.
ShiftLeft(s, k) ==
    [s EXCEPT !.whole = SubSeq(s.whole, 1, Len(s.whole) - k),
              !.point = TRUE,
              !.fract = SubSeq(s.whole, Len(s.whole) - k + 1, Len(s.whole)) \o s.fract,
              !.exp = Some(SrcExponent(s) + k)]

\* The same number with the decimal point k places further right and the
\* exponent k lower.
ShiftRight(s, k) ==
    [s EXCEPT !.whole = s.whole \o SubSeq(s.fract, 1, k),
              !.point = TRUE,
              !.fract = SubSeq(s.fract, k + 1, Len(s.fract)),
              !.exp = Some(SrcExponent(s) - k)]

\* The inputs that denote the same number as s and differ from it in the
\* place of the decimal point and in the exponent.
Shifted(s) ==
    {ShiftLeft(s, k) : k \in 1..MinOf(MaxShift, Len(s.whole))}
        \cup {ShiftRight(s, k) : k \in 1..MinOf(MaxShift, Len(s.fract))}

\* C5: two accepted inputs that denote the same number and differ only in the
\* place of the decimal point and in the exponent parse to the same duration.
C5_ExponentEquivalence ==
    (pc = "done" /\ result.kind = "Ok" /\ ~duration_repr.is_infinite /\ src.tail = <<>>) =>
        \A y \in Shifted(src) :
            LET r == parse_duration(Format(y))
            IN r.kind = "Ok" => r = result

\* "inf" or "infinity" in any ASCII letter case.
IsInfinityToken(t) ==
    /\ Len(t) \in {3, Len(INFINITY)}
    /\ \A i \in 1..Len(t) : to_ascii_lowercase(t[i]) = INFINITY[i]

\* The input is an optional sign and an infinity token, nothing else.
C6_Case ==
    /\ pc \in {"done", "scan_failed"}
    /\ src.whole = <<>> /\ ~src.point /\ src.exp = None
    /\ IsInfinityToken(src.tail)

-----------------------------------------------------------------------------
(* src/src/parsing/repr_parser.rs: ReprParser, the scanner *)

\* Multiplier(m, e): m * 10^e
Multiplier(m, e) == [m |-> m, e |-> e]

\* DurationRepr { ..Default::default() }.  digits is the Vec<u8> of the
\* representation and capacity its reserved capacity; whole is Whole(len),
\* fract is Fract(start, end).
ReprDefault ==
    [unit |-> "Second", multiplier |-> Multiplier(1, 0), number_is_optional |-> FALSE,
     is_negative |-> FALSE, is_infinite |-> FALSE,
     digits |-> None, capacity |-> 0, whole |-> None, fract |-> None, exponent |-> 0]

\* A Delimiter is a predicate on a byte, given by the bytes it accepts.
Delimits(delimiter, byte) == byte \in delimiter

\* TimeUnitsLike::is_empty of the two tables: the table without units and
\* the TimeUnits of fundu-systemd.
TimeUnitsLike_is_empty(units) == units = "empty"

\* TimeUnitsLike::get: the identifiers of TimeUnits::get, all with
\* Multiplier(1, 0).
TimeUnits_get(identifier) ==
    LET unit(name) == Some([unit |-> name, multiplier |-> Multiplier(1, 0)])
    IN CASE identifier \in {B(<<"s">>), B(<<"s", "e", "c">>),
                            B(<<"s", "e", "c", "o", "n", "d">>),
                            B(<<"s", "e", "c", "o", "n", "d", "s">>)} -> unit("Second")
         [] identifier \in {B(<<"m">>), B(<<"m", "i", "n">>),
                            B(<<"m", "i", "n", "u", "t", "e">>),
                            B(<<"m", "i", "n", "u", "t", "e", "s">>)} -> unit("Minute")
         [] identifier \in {B(<<"h">>), B(<<"h", "r">>), B(<<"h", "o", "u", "r">>),
                            B(<<"h", "o", "u", "r", "s">>)} -> unit("Hour")
         [] identifier \in {B(<<"d">>), B(<<"d", "a", "y">>),
                            B(<<"d", "a", "y", "s">>)} -> unit("Day")
         [] identifier \in {B(<<"w">>), B(<<"w", "e", "e", "k">>),
                            B(<<"w", "e", "e", "k", "s">>)} -> unit("Week")
         [] identifier \in {B(<<"M">>), B(<<"m", "o", "n", "t", "h">>),
                            B(<<"m", "o", "n", "t", "h", "s">>)} -> unit("Month")
         [] identifier \in {B(<<"y">>), B(<<"y", "e", "a", "r">>),
                            B(<<"y", "e", "a", "r", "s">>)} -> unit("Year")
         [] identifier \in {B(<<"n", "s">>), B(<<"n", "s", "e", "c">>)} -> unit("NanoSecond")
         [] identifier \in {B(<<"u", "s">>), B(<<"u", "s", "e", "c">>),
                            <<194, 181, 115>>} -> unit("MicroSecond")
         [] identifier \in {B(<<"m", "s">>), B(<<"m", "s", "e", "c">>)} -> unit("MilliSecond")
         [] OTHER -> None

TimeUnitsLike_get(units, identifier) ==
    IF units = "empty" THEN None ELSE TimeUnits_get(identifier)

\* advance_by(num)
advance_by(p, num) == SetCursor(p, p.current_pos + num)

\* peek(num): input.get(current_pos..current_pos + num)
peek(p, num) ==
    IF p.current_pos + num <= Len(p.input)
    THEN Some(SubSeq(p.input, p.current_pos + 1, p.current_pos + num))
    ELSE None

\* get_remainder(): &input[current_pos..]
get_remainder(p) == SubSeq(p.input, p.current_pos + 1, Len(p.input))

\* A variant of finish() that moves the position and keeps the byte.
finish_PositionOnly(p) == [p EXCEPT !.current_pos = Len(p.input)]

\* finish()
finish(p) == [p EXCEPT !.current_pos = Len(p.input), !.current_byte = None]

\* A u64 is the sequence of its 8 bytes, the least significant first:
\* u64::from_le(ptr.read_unaligned()) of 8 input bytes is these bytes in input
\* order.  The u64 with the same byte in all 8 places, as 0x0606060606060606:
Splat(byte) == Rep(byte, 8)

\* a & b of two bytes.
RECURSIVE BitAnd(_, _)
BitAnd(a, b) ==
    IF a = 0 \/ b = 0 THEN 0
    ELSE (a % 2) * (b % 2) + 2 * BitAnd(a \div 2, b \div 2)

\* a & b of two u64.
BitAnd64(a, b) == [i \in 1..8 |-> BitAnd(a[i], b[i])]

\* The carry of a + b into byte i, 0 into the first byte.
RECURSIVE CarryInto(_, _, _)
CarryInto(a, b, i) ==
    IF i = 1 THEN 0
    ELSE (a[i - 1] + b[i - 1] + CarryInto(a, b, i - 1)) \div 256

\* a.wrapping_add(b): the carry runs from byte to byte and the carry out of
\* the most significant byte is dropped.
wrapping_add(a, b) == [i \in 1..8 |-> (a[i] + b[i] + CarryInto(a, b, i)) % 256]

\* The borrow of a - b from byte i, 0 for the first byte.
RECURSIVE BorrowFrom(_, _, _)
BorrowFrom(a, b, i) ==
    IF i = 1 THEN 0
    ELSE IF a[i - 1] - b[i - 1] - BorrowFrom(a, b, i - 1) < 0 THEN 1 ELSE 0

\* a - b of two u64 with a >= b.
Sub64(a, b) == [i \in 1..8 |-> (a[i] - b[i] - BorrowFrom(a, b, i) + 256) % 256]

\* (num & (num.wrapping_add(0x0606060606060606)) & 0xf0f0f0f0f0f0f0f0)
\*     == 0x3030303030303030
MaskedTest(num) ==
    BitAnd64(BitAnd64(num, wrapping_add(num, Splat(6))), Splat(240)) = Splat(48)

\* The test without the addend: (num & 0xf0f0f0f0f0f0f0f0) == 0x3030303030303030.
is_8_digits_HighNibbleOnly(p) ==
    /\ peek(p, 8) # None
    /\ BitAnd64(Unwrap(peek(p, 8)), Splat(240)) = Splat(48)

\* is_8_digits(): input.get(current_pos..current_pos + 8).map_or(false, the
\* masked test of the 8 bytes read as one little endian u64)
is_8_digits(p) ==
    /\ peek(p, 8) # None
    /\ MaskedTest(Unwrap(peek(p, 8)))

\* parse_8_digits() without the test of the 8 bytes.
parse_8_digits_Unchecked(p) ==
    IF peek(p, 8) # None
    THEN [value |-> Some(Sub64(Unwrap(peek(p, 8)), Splat(48))), p |-> advance_by(p, 8)]
    ELSE [value |-> None, p |-> p]

\* parse_8_digits(): [value, p]; on the masked test the 8 bytes minus
\* 0x3030303030303030 after advance_by(8), else None.
parse_8_digits(p) ==
    IF peek(p, 8) # None /\ MaskedTest(Unwrap(peek(p, 8)))
    THEN [value |-> Some(Sub64(Unwrap(peek(p, 8)), Splat(48))), p |-> advance_by(p, 8)]
    ELSE [value |-> None, p |-> p]

\* The position of the first byte at or after pos the delimiter rejects: where
\* "while delimiter(current_byte): advance" stops.
DelimiterRunEnd(in, pos, delimiter) ==
    LET stops == {i \in pos..(Len(in) - 1) : ~Delimits(delimiter, in[i + 1])}
    IN IF stops = {} THEN Len(in)
       ELSE CHOOSE e \in stops : \A o \in stops : e <= o

\* consume_delimiter(delimiter)
consume_delimiter(p, delimiter) ==
    SetCursor(p, DelimiterRunEnd(p.input, p.current_pos, delimiter))

\* try_consume_delimiter(delimiter): [err, pos, p]
try_consume_delimiter(p, delimiter) ==
    LET start == p.current_pos
        q     == consume_delimiter(advance(p), delimiter)
    IN IF q.current_byte = None /\ q.current_pos - start > 0
       THEN [err |-> Some("Syntax"), pos |-> start, p |-> q]
       ELSE [err |-> None, pos |-> 0, p |-> q]

\* parse_sign_is_negative(): [err, pos, neg, p]
parse_sign_is_negative(p) ==
    IF p.current_byte = None
    THEN [err |-> Some("Syntax"), pos |-> p.current_pos, neg |-> FALSE, p |-> p]
    ELSE IF Unwrap(p.current_byte) = Ord["+"]
    THEN [err |-> None, pos |-> 0, neg |-> FALSE, p |-> advance(p)]
    ELSE IF Unwrap(p.current_byte) = Ord["-"]
    THEN [err |-> None, pos |-> 0, neg |-> TRUE, p |-> advance(p)]
    ELSE [err |-> None, pos |-> 0, neg |-> FALSE, p |-> p]

I16_MIN == -32768

I16_MAX == 32767

\* i16::checked_mul(10).and_then(|e| e.checked_add(digit)), and checked_sub
\* for a negative exponent.
CheckedExponentStep(exponent, digit, is_negative) ==
    LET tenfold == exponent * 10
        next    == IF is_negative THEN tenfold - digit ELSE tenfold + digit
    IN IF tenfold \in I16_MIN..I16_MAX /\ next \in I16_MIN..I16_MAX
       THEN Some(next) ELSE None

\* The loop of parse_exponent: [err, pos, exponent, p]
RECURSIVE ExponentLoop(_, _, _)
ExponentLoop(p, is_negative, exponent) ==
    IF p.current_byte = None \/ ~is_ascii_digit(Unwrap(p.current_byte))
    THEN [err |-> None, pos |-> 0, exponent |-> exponent, p |-> p]
    ELSE LET next == CheckedExponentStep(exponent, Unwrap(p.current_byte) - 48, is_negative)
         IN IF next = None
            THEN [err |-> Some(IF is_negative THEN "NegativeExponentOverflow"
                                              ELSE "PositiveExponentOverflow"),
                  pos |-> 0, exponent |-> 0, p |-> p]
            ELSE ExponentLoop(advance(p), is_negative, Unwrap(next))

\* parse_exponent(): the sign, the check for the end of input, the loop.
parse_exponent(p) ==
    LET sign == parse_sign_is_negative(p)
    IN IF sign.err # None
       THEN [err |-> sign.err, pos |-> sign.pos, exponent |-> 0, p |-> sign.p]
       ELSE IF sign.p.current_byte = None
       THEN [err |-> Some("Syntax"), pos |-> sign.p.current_pos, exponent |-> 0, p |-> sign.p]
       ELSE ExponentLoop(sign.p, sign.neg, 0)

\* The digit values of the bytes at the zero based positions from..to-1.
DigitsOf(in, from, to) == [i \in 1..(to - from) |-> in[from + i] - 48]

\* The capacity of a Vec<u8> of capacity cap after pushes up to the length
\* len: a push onto a full vector grows it to max(2 * cap, cap + 1, 8).
RECURSIVE GrowTo(_, _)
GrowTo(cap, len) ==
    IF len <= cap THEN cap
    ELSE GrowTo(IF 2 * cap >= 8 THEN 2 * cap ELSE 8, len)

\* A variant of the block loop of parse_whole that writes every block that is
\* not skipped, without the test capacity >= 8.
WholeBlocksWritten_CapacityUnchecked(in, start, cap0) ==
    LET end    == DigitRunEnd(in, start)
        blocks == (end - start) \div 8
        zeroes == MinOf(blocks, (FirstNonZero(DigitsOf(in, start, end)) - 1) \div 8)
    IN IF cap0 >= 8 /\ end - start >= 8 THEN blocks - zeroes ELSE 0

\* The counter of the block loop of parse_whole when it is left: the blocks
\* of 8 digits written, which are the blocks after the leading all-zero
\* blocks for which capacity >= 8 held, capacity dropping by 8 per block.
WholeBlocksWritten(in, start, cap0) ==
    LET end    == DigitRunEnd(in, start)
        blocks == (end - start) \div 8
        zeroes == MinOf(blocks, (FirstNonZero(DigitsOf(in, start, end)) - 1) \div 8)
    IN IF cap0 >= 8 /\ end - start >= 8 THEN MinOf(blocks - zeroes, cap0 \div 8) ELSE 0

\* A variant that pushes every digit of the run, the leading zeros too.
WholeDigits_LeadingZeroesPushed(in, start, cap0) ==
    DigitsOf(in, start, DigitRunEnd(in, start))

\* The digits parse_whole stores for the run of digits at the cursor.
\* Block path (capacity >= 8 and 8 digits at the cursor): every block of 8
\* digits is consumed; the leading all-zero blocks are skipped, the next
\* blocks are written whole (leading zeros of the first one included) while
\* the counter capacity is >= 8, which drops by 8 per written block.  Then,
\* on both paths, the byte loop pushes the remaining digits while capacity > 0
\* (never decremented there), without leading zeros as long as nothing was
\* stored.
WholeDigits(in, start, cap0) ==
    LET end    == DigitRunEnd(in, start)
        n      == end - start
        blocks == n \div 8
        zeroes == MinOf(blocks, (FirstNonZero(DigitsOf(in, start, end)) - 1) \div 8)
        k      == WholeBlocksWritten(in, start, cap0)
        cap1   == cap0 - 8 * k
        rest   == DigitsOf(in, start + 8 * blocks, end)
        first  == in[start + 1] - 48
        others == DigitsOf(in, start + 1, end)
    IN IF cap0 >= 8 /\ n >= 8
       THEN DigitsOf(in, start + 8 * zeroes, start + 8 * (zeroes + k))
                \o (IF cap1 = 0 THEN <<>> ELSE IF k = 0 THEN Canon(rest) ELSE rest)
       ELSE IF first # 0 THEN <<first>> \o (IF cap0 > 0 THEN others ELSE <<>>)
       ELSE IF cap0 > 0 THEN Canon(others)
       ELSE <<>>

\* A variant that leaves the representation without digits and without a
\* whole part when every digit of the whole part was a stripped zero.
parse_whole_NothingForZero(p) ==
    LET digits == WholeDigits(p.input, p.current_pos, p.duration_repr.capacity)
        q      == SetCursor(p, DigitRunEnd(p.input, p.current_pos))
    IN IF digits = <<>>
       THEN [q EXCEPT !.duration_repr.digits = None, !.duration_repr.whole = None]
       ELSE [q EXCEPT !.duration_repr.digits = Some(digits),
                      !.duration_repr.capacity = GrowTo(p.duration_repr.capacity, Len(digits)),
                      !.duration_repr.whole = Some(Len(digits))]

\* parse_whole(digits): the cursor ends behind the run of digits.
parse_whole(p) ==
    LET digits == WholeDigits(p.input, p.current_pos, p.duration_repr.capacity)
        q      == SetCursor(p, DigitRunEnd(p.input, p.current_pos))
    IN [q EXCEPT !.duration_repr.digits = Some(digits),
                 !.duration_repr.capacity = GrowTo(p.duration_repr.capacity, Len(digits)),
                 !.duration_repr.whole = Some(Len(digits))]

\* The counter of the block loop of parse_fract when it is left: the blocks
\* of 8 digits for which capacity >= 8 held, capacity dropping by 8 per block.
FractBlocksWritten(in, start, cap0) ==
    LET blocks == (DigitRunEnd(in, start) - start) \div 8
    IN IF cap0 >= 8 /\ blocks >= 1 THEN MinOf(blocks, cap0 \div 8) ELSE 0

\* A variant that strips the leading zeros of the fraction as parse_whole
\* strips those of the whole part.
FractDigits_LeadingZeroesStripped(in, start, cap0) ==
    Canon(DigitsOf(in, start, DigitRunEnd(in, start)))

\* The digits parse_fract appends for the run of digits at the cursor, with
\* capacity = digits.capacity() - digits.len() to begin with.
FractDigits(in, start, cap0) ==
    LET end    == DigitRunEnd(in, start)
        n      == end - start
        blocks == n \div 8
        k      == FractBlocksWritten(in, start, cap0)
        cap1   == cap0 - 8 * k
    IN IF cap0 >= 8 /\ n >= 8
       THEN DigitsOf(in, start, start + 8 * k)
                \o (IF cap1 > 0 THEN DigitsOf(in, start + 8 * blocks, end) ELSE <<>>)
       ELSE <<in[start + 1] - 48>>
                \o (IF cap0 > 0 THEN DigitsOf(in, start + 1, end) ELSE <<>>)

\* A variant that counts the span of the fraction from the start of its own
\* digits, not from the end of the whole part.
parse_fract_SpanOfOwnDigits(p) ==
    LET old    == Unwrap(p.duration_repr.digits)
        added  == FractDigits(p.input, p.current_pos, p.duration_repr.capacity - Len(old))
        digits == old \o added
        q      == SetCursor(p, DigitRunEnd(p.input, p.current_pos))
    IN [q EXCEPT !.duration_repr.digits = Some(digits),
                 !.duration_repr.capacity = GrowTo(p.duration_repr.capacity, Len(digits)),
                 !.duration_repr.fract = Some(<<0, Len(added)>>)]

\* parse_fract(digits)
parse_fract(p) ==
    LET old    == Unwrap(p.duration_repr.digits)
        added  == FractDigits(p.input, p.current_pos, p.duration_repr.capacity - Len(old))
        digits == old \o added
        q      == SetCursor(p, DigitRunEnd(p.input, p.current_pos))
    IN [q EXCEPT !.duration_repr.digits = Some(digits),
                 !.duration_repr.capacity = GrowTo(p.duration_repr.capacity, Len(digits)),
                 !.duration_repr.fract = Some(<<Len(old), Len(digits)>>)]

INITY == B(<<"i", "n", "i", "t", "y">>)

\* The loop of parse_infinity_remainder over b"inity": [err, pos, p]
RECURSIVE InityLoop(_, _)
InityLoop(p, i) ==
    IF i > Len(INITY) THEN [err |-> None, pos |-> 0, p |-> p]
    ELSE IF p.current_byte # None /\ eq_ignore_ascii_case(Unwrap(p.current_byte), INITY[i])
    THEN InityLoop(advance(p), i + 1)
    ELSE [err |-> Some("Syntax"), pos |-> p.current_pos, p |-> p]

\* A variant that takes any prefix of b"inity" for the token.
parse_infinity_remainder_PrefixTaken(p, multiple) ==
    LET inity == InityLoop(p, 1)
    IN [err |-> None, pos |-> 0, p |-> IF inity.err # None THEN finish(inity.p) ELSE inity.p]

\* parse_infinity_remainder(multiple): [err, pos, p]
parse_infinity_remainder(p, multiple) ==
    IF p.current_byte = None THEN [err |-> None, pos |-> 0, p |-> p]
    ELSE IF multiple # None /\ Delimits(Unwrap(multiple), Unwrap(p.current_byte))
    THEN try_consume_delimiter(p, Unwrap(multiple))
    ELSE LET inity == InityLoop(p, 1)
         IN IF inity.err # None THEN inity
            ELSE IF inity.p.current_byte # None /\ multiple # None
            THEN IF Delimits(Unwrap(multiple), Unwrap(inity.p.current_byte))
                 THEN try_consume_delimiter(inity.p, Unwrap(multiple))
                 ELSE [err |-> Some("Syntax"), pos |-> inity.p.current_pos, p |-> inity.p]
            ELSE inity

\* The position of the first byte at or after pos that is a delimiter or a
\* digit: where the identifier of a time unit ends in parse_time_unit.
IdentifierEnd(in, pos, delimiter) ==
    LET stops == {i \in pos..(Len(in) - 1) :
                     Delimits(delimiter, in[i + 1]) \/ is_ascii_digit(in[i + 1])}
    IN IF stops = {} THEN Len(in)
       ELSE CHOOSE e \in stops : \A o \in stops : e <= o

\* A variant that reads the position of the error after finish().
parse_time_unit_PositionAfterFinish(p, multiple) ==
    IF multiple # None
    THEN LET start  == p.current_pos
             q      == SetCursor(p, IdentifierEnd(p.input, start, Unwrap(multiple)))
             string == SubSeq(p.input, start + 1, q.current_pos)
             unit   == TimeUnitsLike_get(time_units, string)
         IN IF string = <<>> THEN [err |-> None, pos |-> 0, unit |-> None, p |-> q]
            ELSE IF unit = None
            THEN [err |-> Some("TimeUnit"), pos |-> q.current_pos, unit |-> None, p |-> q]
            ELSE [err |-> None, pos |-> 0, unit |-> unit, p |-> q]
    ELSE LET unit == TimeUnitsLike_get(time_units, get_remainder(p))
         IN IF unit = None
            THEN [err |-> Some("TimeUnit"), pos |-> finish(p).current_pos, unit |-> None,
                  p |-> finish(p)]
            ELSE [err |-> None, pos |-> 0, unit |-> unit, p |-> finish(p)]

\* parse_time_unit(multiple): [err, pos, unit, p], unit the Option the table
\* returned.
parse_time_unit(p, multiple) ==
    IF multiple # None
    THEN LET start  == p.current_pos
             q      == SetCursor(p, IdentifierEnd(p.input, start, Unwrap(multiple)))
             string == SubSeq(p.input, start + 1, q.current_pos)
             unit   == TimeUnitsLike_get(time_units, string)
         IN IF string = <<>> THEN [err |-> None, pos |-> 0, unit |-> None, p |-> q]
            ELSE IF unit = None THEN [err |-> Some("TimeUnit"), pos |-> start, unit |-> None, p |-> q]
            ELSE [err |-> None, pos |-> 0, unit |-> unit, p |-> q]
    ELSE LET unit == TimeUnitsLike_get(time_units, get_remainder(p))
         IN IF unit = None
            THEN [err |-> Some("TimeUnit"), pos |-> p.current_pos, unit |-> None, p |-> finish(p)]
            ELSE [err |-> None, pos |-> 0, unit |-> unit, p |-> finish(p)]

\* return Ok((duration_repr, None)) or Ok((duration_repr, Some(self))) out of
\* ReprParser::parse: the evaluator is next, and with a continuation the
\* caller has input left.
ReprReturn(p, continuation) ==
    [p EXCEPT !.pc = IF continuation THEN "eval_more" ELSE "eval"]

\* ReprParser::parse, the check for the empty input and the construction of
\* the DurationRepr from the configuration.
ReprStartStep(p) ==
    IF p.current_byte = None THEN Fail(p, "Empty", 0)
    ELSE [p EXCEPT !.duration_repr =
                       [ReprDefault EXCEPT !.unit = config.default_unit,
                                           !.number_is_optional = config.number_is_optional],
                   !.pc = "sign"]

\* ReprParser::parse, "parse the sign if present".
ReprSignStep(p) ==
    LET sign == parse_sign_is_negative(p)
    IN IF sign.err # None THEN Fail(sign.p, Unwrap(sign.err), sign.pos)
       ELSE [sign.p EXCEPT !.duration_repr.is_negative = sign.neg, !.pc = "whole"]

\* ReprParser::parse, "parse infinity or the whole number part of the input".
ReprWholeStep(p) ==
    IF p.current_byte = None THEN Fail(p, "Syntax", p.current_pos)
    ELSE LET byte == Unwrap(p.current_byte)
             max  == (IF config.min_exponent < 0 THEN -config.min_exponent
                      ELSE config.min_exponent) + 32
         IN IF is_ascii_digit(byte)
            THEN [parse_whole([p EXCEPT !.duration_repr.digits = Some(<<>>),
                                        !.duration_repr.capacity =
                                            MinOf(max, Len(p.input) - p.current_pos)])
                      EXCEPT !.pc = "fract"]
            ELSE IF byte = Ord["."] THEN [p EXCEPT !.pc = "fract"]
            ELSE IF /\ ~config.disable_infinity
                    /\ peek(p, 3) # None
                    /\ \A i \in 1..3 : eq_ignore_ascii_case(Unwrap(peek(p, 3))[i], INFINITY[i])
            THEN LET inf == parse_infinity_remainder(advance_by(p, 3), config.parse_multiple)
                     q   == [inf.p EXCEPT !.duration_repr.is_infinite = TRUE]
                 IN IF inf.err # None THEN Fail(inf.p, Unwrap(inf.err), inf.pos)
                    ELSE IF q.current_byte = None THEN ReprReturn(q, FALSE)
                    ELSE IF config.parse_multiple # None THEN ReprReturn(q, TRUE)
                    ELSE Fail(q, "Syntax", q.current_pos)
            ELSE IF config.number_is_optional THEN [p EXCEPT !.pc = "fract"]
            ELSE Fail(p, "Syntax", p.current_pos)

\* The digits vector the fraction is parsed into: the one of the whole part
\* when its spare capacity holds the rest of the input, else that one after
\* try_reserve_exact, else a new one.
ReserveForFract(p) ==
    LET needed == Len(p.input) - p.current_pos
        more   == MinOf(config.max_exponent + 25, needed)
        r      == p.duration_repr
    IN IF r.digits = None
       THEN [p EXCEPT !.duration_repr.digits = Some(<<>>), !.duration_repr.capacity = more]
       ELSE IF r.capacity - Len(Unwrap(r.digits)) >= needed THEN p
       ELSE IF r.capacity - Len(Unwrap(r.digits)) >= more THEN p
       ELSE [p EXCEPT !.duration_repr.capacity = Len(Unwrap(r.digits)) + more]

\* ReprParser::parse, the fraction part with the error anchored at the byte
\* after the point, not at the point.
ReprFractStep_AnchorAfterPoint(p) ==
    IF p.current_byte = None THEN ReprReturn(p, FALSE)
    ELSE IF Unwrap(p.current_byte) = Ord["."] /\ ~config.disable_fraction
    THEN LET q == advance(p)
         IN IF q.current_byte # None /\ is_ascii_digit(Unwrap(q.current_byte))
            THEN [parse_fract(ReserveForFract(q)) EXCEPT !.pc = "exponent"]
            ELSE IF q.duration_repr.whole = None THEN Fail(q, "Syntax", q.current_pos)
            ELSE IF q.current_byte # None THEN [q EXCEPT !.pc = "exponent"]
            ELSE ReprReturn(q, FALSE)
    ELSE IF Unwrap(p.current_byte) = Ord["."] THEN Fail(p, "Syntax", p.current_pos)
    ELSE [p EXCEPT !.pc = "exponent"]

\* ReprParser::parse, "parse the fraction number part of the input".
ReprFractStep(p) ==
    IF p.current_byte = None THEN ReprReturn(p, FALSE)
    ELSE IF Unwrap(p.current_byte) = Ord["."] /\ ~config.disable_fraction
    THEN LET q == advance(p)
         IN IF q.current_byte # None /\ is_ascii_digit(Unwrap(q.current_byte))
            THEN [parse_fract(ReserveForFract(q)) EXCEPT !.pc = "exponent"]
            ELSE IF q.duration_repr.whole = None THEN Fail(q, "Syntax", q.current_pos - 1)
            ELSE IF q.current_byte # None THEN [q EXCEPT !.pc = "exponent"]
            ELSE ReprReturn(q, FALSE)
    ELSE IF Unwrap(p.current_byte) = Ord["."] THEN Fail(p, "Syntax", p.current_pos)
    ELSE [p EXCEPT !.pc = "exponent"]

\* ReprParser::parse, the exponent phase where a disabled exponent marker is
\* left to the next phases.
ReprExponentStep_MarkerLeftToUnits(p) ==
    IF p.current_byte = None THEN ReprReturn(p, FALSE)
    ELSE IF eq_ignore_ascii_case(Unwrap(p.current_byte), Ord["e"]) /\ ~config.disable_exponent
    THEN LET exp == parse_exponent(advance(p))
         IN IF exp.err # None THEN Fail(exp.p, Unwrap(exp.err), exp.pos)
            ELSE [exp.p EXCEPT !.duration_repr.exponent = exp.exponent, !.pc = "delimiter"]
    ELSE [p EXCEPT !.pc = "delimiter"]

\* ReprParser::parse, "parse the exponent of the input if present".
ReprExponentStep(p) ==
    IF p.current_byte = None THEN ReprReturn(p, FALSE)
    ELSE IF eq_ignore_ascii_case(Unwrap(p.current_byte), Ord["e"]) /\ ~config.disable_exponent
    THEN LET exp == parse_exponent(advance(p))
         IN IF exp.err # None THEN Fail(exp.p, Unwrap(exp.err), exp.pos)
            ELSE [exp.p EXCEPT !.duration_repr.exponent = exp.exponent, !.pc = "delimiter"]
    ELSE IF eq_ignore_ascii_case(Unwrap(p.current_byte), Ord["e"])
    THEN Fail(p, "Syntax", p.current_pos)
    ELSE [p EXCEPT !.pc = "delimiter"]

\* ReprParser::parse, the delimiters between the number and the time unit, with
\* a delimiter run that must not end the input.
ReprDelimiterStep_RunNeedsUnit(p) ==
    IF p.current_byte = None THEN ReprReturn(p, FALSE)
    ELSE IF /\ config.allow_delimiter # None
            /\ Delimits(Unwrap(config.allow_delimiter), Unwrap(p.current_byte))
    THEN LET q == consume_delimiter(advance(p), Unwrap(config.allow_delimiter))
         IN IF q.current_byte = None THEN Fail(q, "Syntax", p.current_pos)
            ELSE [q EXCEPT !.pc = "unit"]
    ELSE [p EXCEPT !.pc = "unit"]

\* ReprParser::parse, the delimiters between the number and the time unit.
ReprDelimiterStep(p) ==
    IF p.current_byte = None THEN ReprReturn(p, FALSE)
    ELSE IF /\ config.allow_delimiter # None
            /\ Delimits(Unwrap(config.allow_delimiter), Unwrap(p.current_byte))
    THEN [consume_delimiter(advance(p), Unwrap(config.allow_delimiter)) EXCEPT !.pc = "unit"]
    ELSE [p EXCEPT !.pc = "unit"]

\* ReprParser::parse, "parse the time unit if present".
ReprUnitStep(p) ==
    IF p.current_byte = None THEN ReprReturn(p, FALSE)
    ELSE IF ~TimeUnitsLike_is_empty(time_units)
    THEN LET unit == parse_time_unit(p, config.parse_multiple)
         IN IF unit.err # None THEN Fail(unit.p, Unwrap(unit.err), unit.pos)
            ELSE IF unit.unit = None THEN [unit.p EXCEPT !.pc = "end"]
            ELSE [unit.p EXCEPT !.duration_repr.unit = Unwrap(unit.unit).unit,
                                !.duration_repr.multiplier = Unwrap(unit.unit).multiplier,
                                !.pc = "end"]
    ELSE IF config.parse_multiple = None THEN Fail(p, "TimeUnit", p.current_pos)
    ELSE [p EXCEPT !.pc = "end"]

\* ReprParser::parse, "check we've reached the end of input".
ReprEndStep(p) ==
    IF p.current_byte = None THEN ReprReturn(p, FALSE)
    ELSE IF config.parse_multiple = None THEN Fail(p, "unreachable", p.current_pos)
    ELSE IF Delimits(Unwrap(config.parse_multiple), Unwrap(p.current_byte))
    THEN LET d == try_consume_delimiter(p, Unwrap(config.parse_multiple))
         IN IF d.err # None THEN Fail(d.p, Unwrap(d.err), d.pos)
            ELSE ReprReturn(d.p, TRUE)
    ELSE ReprReturn(p, TRUE)

-----------------------------------------------------------------------------
(* The evaluator of the DurationRepr of ReprParser (super::repr), after
   section 4.4 of the specification *)

\* The seconds of a time unit are u * 10^k: k
UnitExponent(unit) ==
    CASE unit = "NanoSecond" -> -9
      [] unit = "MicroSecond" -> -6
      [] unit = "MilliSecond" -> -3
      [] OTHER -> 0

\* The seconds of a time unit are u * 10^k: u
UnitIntegerPart(unit) ==
    CASE unit = "Minute" -> 60
      [] unit = "Hour" -> 3600
      [] unit = "Day" -> 86400
      [] unit = "Week" -> 604800
      [] unit = "Month" -> 2629800
      [] unit = "Year" -> 31557600
      [] OTHER -> 1

\* The digits of the product of a digit sequence and a natural number.
RECURSIVE MulLoop(_, _, _, _)
MulLoop(ds, scale, i, carry) ==
    IF i = 0 THEN DecDigits(carry)
    ELSE LET t == ds[i] * scale + carry
         IN Append(MulLoop(ds, scale, i - 1, t \div 10), t % 10)

MulDigits(ds, scale) == Canon(MulLoop(ds, scale, Len(ds), 0))

\* The digits of the sum of two digit sequences.
RECURSIVE AddLoop(_, _, _, _)
AddLoop(a, b, i, carry) ==
    IF i = 0 THEN (IF carry = 0 THEN <<>> ELSE <<carry>>)
    ELSE LET t == a[i] + b[i] + carry
         IN Append(AddLoop(a, b, i - 1, t \div 10), t % 10)

AddDigits(a, b) ==
    LET n  == IF Len(a) >= Len(b) THEN Len(a) ELSE Len(b)
        pa == Rep(0, n - Len(a)) \o a
        pb == Rep(0, n - Len(b)) \o b
    IN Canon(AddLoop(pa, pb, n, 0))

\* s saturated at u64::MAX
SaturateU64(s) == IF NumLeq(s, U64_MAX) THEN s ELSE U64_MAX

\* "Then multiply by S with saturation" and "multiply the nanos by S with
\* carry into seconds ... add the carry to seconds with saturation".
ScaleBy(seconds, nanos, scale) ==
    LET product == MulDigits(DecDigits(nanos), scale)
        split   == IF Len(product) > 9 THEN Len(product) - 9 ELSE 0
        carry   == SubSeq(product, 1, split)
        scaled  == SaturateU64(MulDigits(seconds, scale))
    IN [seconds |-> SaturateU64(AddDigits(scaled, carry)),
        nanos   |-> DigitsValue(SubSeq(product, split + 1, Len(product)))]

\* Sign finalization.
ReprSignFinalization(is_negative, seconds, nanos) ==
    IF ~is_negative THEN Ok(seconds, nanos)
    ELSE IF seconds = <<>> /\ nanos = 0 THEN Ok(<<>>, 0)
    ELSE IF config.allow_negative THEN [Ok(seconds, nanos) EXCEPT !.kind = "OkNegative"]
    ELSE Err("NegativeNumber", 0)

\* The evaluation of a DurationRepr: the infinity short-circuit, the implicit
\* number 1 of a representation without digits, the effective exponent E and
\* scale S, the repartition of the digits, seconds and nanos, the sign.
Repr_parse(repr) ==
    IF repr.is_infinite
    THEN (IF repr.is_negative THEN Err("NegativeInfinity", 0) ELSE Ok(SECONDS_MAX, NANOS_MAX))
    ELSE LET digits == IF repr.digits = None THEN <<1>> ELSE Unwrap(repr.digits)
             wl     == IF repr.digits = None THEN 1
                       ELSE IF repr.whole = None THEN 0 ELSE Unwrap(repr.whole)
             whole  == SubSeq(digits, 1, wl)
             fract  == SubSeq(digits, wl + 1, Len(digits))
             E      == repr.exponent + UnitExponent(repr.unit) + repr.multiplier.e
             S      == UnitIntegerPart(repr.unit) * repr.multiplier.m
         IN IF E < I16_MIN THEN ReprSignFinalization(repr.is_negative, <<>>, 0)
            ELSE IF E > I16_MAX
            THEN ReprSignFinalization(repr.is_negative, SECONDS_MAX, NANOS_MAX)
            ELSE LET sn == SecondsAndNanos(Repartition(whole, fract, E))
                     sc == IF Seconds_parse(Repartition(whole, fract, E).seconds) = None
                           THEN sn ELSE ScaleBy(sn.seconds, sn.nanos, S)
                 IN ReprSignFinalization(repr.is_negative, sc.seconds, sc.nanos)

\* The caller of ReprParser::parse evaluates the representation it got.
ReprEvalStep(p) ==
    [p EXCEPT !.pc = IF p.pc = "eval_more" THEN "segment_done" ELSE "done",
              !.result = Repr_parse(p.duration_repr)]

-----------------------------------------------------------------------------
(* The configurations, time unit tables and inputs of ReprParser *)

\* const DELIMITER: Delimiter = |byte| matches!(byte, b' ' | 0x9..=0xd)
DELIMITER == {32} \cup (9..13)

\* Config::new()
ConfigNew ==
    [allow_delimiter |-> None, default_unit |-> "Second",
     default_multiplier |-> Multiplier(1, 0), disable_exponent |-> FALSE,
     disable_fraction |-> FALSE, disable_infinity |-> FALSE,
     number_is_optional |-> FALSE, max_exponent |-> I16_MAX, min_exponent |-> I16_MIN,
     parse_multiple |-> None, parse_multiple_conjunctions |-> None,
     allow_negative |-> FALSE, allow_ago |-> None]

\* The configuration with the exponents of the f64 profile.
ConfigF64 == [ConfigNew EXCEPT !.max_exponent = 1023, !.min_exponent = -1022]

\* The CONFIG of fundu-systemd.
ConfigSystemd ==
    [ConfigNew EXCEPT !.allow_delimiter = Some(DELIMITER), !.disable_exponent = TRUE,
                      !.disable_fraction = TRUE, !.disable_infinity = TRUE,
                      !.number_is_optional = TRUE, !.parse_multiple = Some(DELIMITER)]

\* A builder with allow_delimiter, number_is_optional and parse_multiple, and
\* fraction, exponent and infinity left enabled.
ConfigMultiple ==
    [ConfigNew EXCEPT !.allow_delimiter = Some(DELIMITER), !.number_is_optional = TRUE,
                      !.parse_multiple = Some(DELIMITER)]

\* Builders with one setter called: disable_fraction(), disable_exponent(), and
\* allow_delimiter(Some(|byte| byte.is_ascii_whitespace())).
ConfigNoFraction == [ConfigNew EXCEPT !.disable_fraction = TRUE]

ConfigNoExponent == [ConfigNew EXCEPT !.disable_exponent = TRUE]

ConfigDelimiter == [ConfigNew EXCEPT !.allow_delimiter = Some({32, 9, 10, 12, 13})]

ReprConfigs ==
    {ConfigNew, ConfigF64, ConfigSystemd, ConfigMultiple, ConfigNoFraction,
     ConfigNoExponent, ConfigDelimiter}

\* The table without time units and the TimeUnits of fundu-systemd.
ReprTimeUnits == {"empty", "systemd"}

\* Whole parts: short ones, runs through the 8 digit blocks with leading
\* zeros, and runs longer than the capacity of the f64 profile,
\* |min_exponent| + 32 = 1054.
ReprWholes ==
    DigitStrings(MaxWholeLen)
        \cup {<<1>>, <<0, 0, 0, 0, 0, 0, 1, 0>>, <<0, 0, 0, 0, 0, 0, 0, 1, 0>>,
              Rep(0, 8) \o Rep(1, 8), Rep(0, 15)}

ReprLongWholes ==
    {Rep(0, 7) \o <<1>> \o Rep(0, 1048), Rep(1, 1056), Rep(1, 1055),
     Rep(0, 8) \o Rep(1, 1054)}

ReprFracts == DigitStrings(MaxFractLen) \cup {<<5>>, Rep(0, 8) \o <<1>>, Rep(9, 17)}

ReprExps ==
    {None} \cup {Some(e) : e \in {0, 1, -1, -9, 1023, 1024, -1022, -1023,
                                  32767, 32768, -32768, -32769}}

ReprTails ==
    {<<>>, B(<<"s">>), B(<<"n", "s">>), B(<<"x">>), B(<<" ">>), B(<<" ", "s">>),
     B(<<"s", " ", "1">>), B(<<"e">>), B(<<"e", "+">>), B(<<"e", "+", "F">>),
     B(<<"e", "+", "s">>), B(<<"E", "s">>), B(<<"e", "-", "9", "n", "s">>)}

\* A number without sign: whole part, fraction part after a point, and tail.
Sample(whole, point, fract, tail) ==
    [sign |-> <<>>, whole |-> whole, point |-> point, fract |-> fract, exp |-> None,
     tail |-> tail]

\* Numbers with a whole part longer than the digit capacity, and a number
\* with such a fraction part.
ReprLongSrcs ==
    [sign : {<<>>}, whole : ReprLongWholes, point : {FALSE}, fract : {<<>>},
     exp : {None, Some(-1022)}, tail : {<<>>}]
        \cup {Sample(<<1>>, TRUE, Rep(1, 1056), <<>>)}

\* The inputs of the documentation: '5.', '123.456', '123e+1', '123\n',
\* '123 \t\n\x0C\rns'.
ReprSampleSrcs ==
    {Sample(<<5>>, TRUE, <<>>, <<>>), Sample(<<1, 2, 3>>, TRUE, <<4, 5, 6>>, <<>>),
     Sample(<<1, 2, 3>>, FALSE, <<>>, B(<<"e", "+", "1">>)),
     Sample(<<1, 2, 3>>, FALSE, <<>>, <<10>>),
     Sample(<<1, 2, 3>>, FALSE, <<>>, <<32, 9, 10, 12, 13>> \o B(<<"n", "s">>))}

\* The infinity tokens followed by a delimiter: 'inf 1', 'inf ', 'infinity 1',
\* 'infinity\n', 'infi 1', 'INF 1s'.
ReprInfinitySrcs ==
    [sign : {<<>>, B(<<"-">>)}, whole : {<<>>}, point : {FALSE}, fract : {<<>>}, exp : {None},
     tail : {B(<<"i", "n", "f", " ", "1">>), B(<<"i", "n", "f", " ">>),
             B(<<"i", "n", "f", "i", "n", "i", "t", "y", " ", "1">>),
             B(<<"i", "n", "f", "i", "n", "i", "t", "y">>) \o <<10>>,
             B(<<"i", "n", "f", "i", " ", "1">>), B(<<"I", "N", "F", " ", "1", "s">>)}]

\* The number 1 with identifiers that differ from a time unit of fundu-systemd
\* in letter case only or mean another unit in the other case, and with
\* identifiers before a digit or a delimiter: '1S', '1M', '1m', '1Ms', '1min',
\* '1m1', '1ms 1', '1 M', '1x 1', '1 1'.
ReprUnitSrcs ==
    {Sample(<<1>>, FALSE, <<>>, tail) :
        tail \in {B(<<"S">>), B(<<"M">>), B(<<"m">>), B(<<"M", "s">>), B(<<"m", "i", "n">>),
                  B(<<"m", "1">>), B(<<"m", "s", " ", "1">>), B(<<" ", "M">>),
                  B(<<"x", " ", "1">>), B(<<" ", "1">>)}}

ReprSrcs ==
    NumberSrcs(ReprWholes, ReprFracts, ReprExps, ReprTails)
        \cup InfinitySrcs \cup ReprInfinitySrcs \cup ReprLongSrcs \cup ReprSampleSrcs
        \cup ReprUnitSrcs

-----------------------------------------------------------------------------
(* Specification Spec: ReprParser::parse of src/src/parsing/repr_parser.rs and
   the evaluation of its DurationRepr *)

\* ReprParser::new(input, config, time_units)
Init ==
    /\ src \in ReprSrcs
    /\ input = Format(src)
    /\ config \in ReprConfigs
    /\ time_units \in ReprTimeUnits
    /\ current_pos = 0
    /\ current_byte = ByteAt(input, 0)
    /\ duration_repr = ReprDefault
    /\ pc = "start"
    /\ result = NoResult
    /\ duration = [secs |-> <<>>, nanos |-> 0]
    /\ calls = 1

ReprStart == pc = "start" /\ Become(ReprStartStep(Cur))

ReprParseSign == pc = "sign" /\ Become(ReprSignStep(Cur))

ReprParseWhole == pc = "whole" /\ Become(ReprWholeStep(Cur))

ReprParseFract == pc = "fract" /\ Become(ReprFractStep(Cur))

ReprParseExponent == pc = "exponent" /\ Become(ReprExponentStep(Cur))

ReprConsumeDelimiter == pc = "delimiter" /\ Become(ReprDelimiterStep(Cur))

ReprParseTimeUnit == pc = "unit" /\ Become(ReprUnitStep(Cur))

ReprCheckEnd == pc = "end" /\ Become(ReprEndStep(Cur))

ReprEvaluate == pc \in {"eval", "eval_more"} /\ Become(ReprEvalStep(Cur))

Next ==
    \/ ReprStart
    \/ ReprParseSign
    \/ ReprParseWhole
    \/ ReprParseFract
    \/ ReprParseExponent
    \/ ReprConsumeDelimiter
    \/ ReprParseTimeUnit
    \/ ReprCheckEnd
    \/ ReprEvaluate

Spec == Init /\ [][Next]_vars

-----------------------------------------------------------------------------
(* Specification SpecMultiple: the caller of ReprParser::parse, which parses
   segment after segment as long as the scanner returns a continuation, and
   adds up the durations of the segments *)

\* Duration::saturating_add of two durations [secs, nanos].
saturating_add(a, b) ==
    LET nanos == a.nanos + b.nanos
        carry == IF nanos > NANOS_MAX THEN <<1>> ELSE <<>>
        secs  == AddDigits(AddDigits(a.secs, b.secs), carry)
    IN IF NumLeq(secs, U64_MAX)
       THEN [secs |-> secs, nanos |-> IF nanos > NANOS_MAX THEN nanos - NANOS_MAX - 1 ELSE nanos]
       ELSE [secs |-> U64_MAX, nanos |-> NANOS_MAX]

\* The calls of ReprParser::parse on one input that the model follows.
MaxCalls == 4

\* The caller after ReprParser::parse returned Ok: the representation is
\* evaluated, an error ends the parse, a duration is added to the sum, and the
\* scanner is called again when it returned a continuation.
ParserAddSegment ==
    /\ pc \in {"eval", "eval_more"}
    /\ pc = "eval_more" => calls < MaxCalls
    /\ LET parsed == Repr_parse(duration_repr)
           sum    == saturating_add(duration, [secs |-> parsed.secs, nanos |-> parsed.nanos])
       IN IF parsed.kind # "Ok"
          THEN /\ pc' = "done" /\ result' = parsed
               /\ UNCHANGED <<duration, calls, duration_repr>>
          ELSE /\ duration' = sum
               /\ IF pc = "eval_more"
                  THEN /\ pc' = "start" /\ calls' = calls + 1
                       /\ duration_repr' = ReprDefault /\ UNCHANGED result
                  ELSE /\ pc' = "done" /\ result' = Ok(sum.secs, sum.nanos)
                       /\ UNCHANGED <<calls, duration_repr>>
    /\ UNCHANGED <<input, config, time_units, src, current_pos, current_byte>>

\* A builder with parse_multiple alone.
ConfigMultipleOnly == [ConfigNew EXCEPT !.parse_multiple = Some(DELIMITER)]

\* A builder with parse_multiple, allow_negative and allow_ago.
ConfigAgo ==
    [ConfigMultipleOnly EXCEPT !.allow_negative = TRUE, !.allow_ago = Some(DELIMITER)]

MultiConfigs == {ConfigNew, ConfigMultipleOnly, ConfigMultiple, ConfigSystemd, ConfigAgo}

\* The segments the inputs are made of: numbers with and without fraction,
\* exponent and time unit, the largest seconds, and bytes that are no segment.
MultiSegments ==
    {B(<<"1">>), B(<<"1", ".", "5", "h">>), B(<<"2", "e", "+", "2", "n", "s">>),
     B(<<"5", "5", "s">>), B(<<"5", "0", "0", "m", "s">>), B(<<".", "5">>),
     B(<<"1", "e">>), B(<<"i", "n", "f">>), B(<<"x">>), B(<<"0", ".", "9">>),
     B(<<"2", "h">>), B(<<"a", "g", "o">>), DigitBytes(U64_MAX)}

MultiSeparators == {<<>>, B(<<" ">>), <<32, 10>>}

\* The segments of one input.
MaxSegments == 2

MultiSrcs ==
    [segments : UNION {[1..n -> MultiSegments] : n \in 1..MaxSegments},
     separator : MultiSeparators]

\* The input: the segments with the separator between them.
RECURSIVE FormatMultiple(_, _)
FormatMultiple(segments, separator) ==
    IF Len(segments) = 1 THEN segments[1]
    ELSE segments[1] \o separator \o FormatMultiple(Tail(segments), separator)

InitMultiple ==
    /\ src \in MultiSrcs
    /\ input = FormatMultiple(src.segments, src.separator)
    /\ config \in MultiConfigs
    /\ time_units \in ReprTimeUnits
    /\ current_pos = 0
    /\ current_byte = ByteAt(input, 0)
    /\ duration_repr = ReprDefault
    /\ pc = "start"
    /\ result = NoResult
    /\ duration = [secs |-> <<>>, nanos |-> 0]
    /\ calls = 1

NextMultiple ==
    \/ ReprStart
    \/ ReprParseSign
    \/ ReprParseWhole
    \/ ReprParseFract
    \/ ReprParseExponent
    \/ ReprConsumeDelimiter
    \/ ReprParseTimeUnit
    \/ ReprCheckEnd
    \/ ParserAddSegment

SpecMultiple == InitMultiple /\ [][NextMultiple]_vars

-----------------------------------------------------------------------------
(* Specification SpecBuilder: the setters of the builders, ConfigBuilder of
   src/fundu-core/src/config.rs and DurationParserBuilder of
   src/src/standard/builder.rs. config is the Config of the builder,
   time_units its TimeUnitsChoice, and src the argument of the last call of
   every setter (None before the first call; a setter without arguments has
   the argument TRUE). *)

Setters ==
    {"time_units", "default_unit", "allow_delimiter", "disable_exponent",
     "disable_fraction", "disable_infinity", "number_is_optional", "parse_multiple",
     "allow_negative", "allow_ago"}

\* The setter calls of one builder that the model follows.
MaxSetterCalls == 4

BuilderUnits == {"NanoSecond", "MicroSecond", "Second"}

\* |byte| byte == b' ' and |byte| byte.is_ascii_whitespace()
BuilderDelimiters == {{32}, {32, 9, 10, 12, 13}}

\* The conjunctions of parse_multiple: None and Some(&["and"]).
BuilderConjunctions == {None, Some({B(<<"a", "n", "d">>)})}

\* The call of a setter: it returns the builder, and src records the argument.
Called(setter, argument) ==
    /\ pc = "builder" /\ calls < MaxSetterCalls
    /\ calls' = calls + 1
    /\ src' = [src EXCEPT ![setter] = Some(argument)]
    /\ UNCHANGED <<input, current_pos, current_byte, duration_repr, pc, result, duration>>

default_time_units ==
    time_units' = "Default" /\ UNCHANGED config /\ Called("time_units", "Default")

all_time_units ==
    time_units' = "All" /\ UNCHANGED config /\ Called("time_units", "All")

default_unit ==
    \E unit \in BuilderUnits :
        /\ config' = [config EXCEPT !.default_unit = unit]
        /\ UNCHANGED time_units /\ Called("default_unit", unit)

allow_delimiter ==
    \E delimiter \in BuilderDelimiters :
        /\ config' = [config EXCEPT !.allow_delimiter = Some(delimiter)]
        /\ UNCHANGED time_units /\ Called("allow_delimiter", delimiter)

disable_exponent ==
    /\ config' = [config EXCEPT !.disable_exponent = TRUE]
    /\ UNCHANGED time_units /\ Called("disable_exponent", TRUE)

\* disable_fraction that sets disable_exponent as well.
disable_fraction_AndExponent ==
    /\ config' = [config EXCEPT !.disable_fraction = TRUE, !.disable_exponent = TRUE]
    /\ UNCHANGED time_units /\ Called("disable_fraction", TRUE)

disable_fraction ==
    /\ config' = [config EXCEPT !.disable_fraction = TRUE]
    /\ UNCHANGED time_units /\ Called("disable_fraction", TRUE)

disable_infinity ==
    /\ config' = [config EXCEPT !.disable_infinity = TRUE]
    /\ UNCHANGED time_units /\ Called("disable_infinity", TRUE)

number_is_optional ==
    /\ config' = [config EXCEPT !.number_is_optional = TRUE]
    /\ UNCHANGED time_units /\ Called("number_is_optional", TRUE)

allow_negative ==
    /\ config' = [config EXCEPT !.allow_negative = TRUE]
    /\ UNCHANGED time_units /\ Called("allow_negative", TRUE)

parse_multiple ==
    \E delimiter \in BuilderDelimiters, conjunctions \in BuilderConjunctions :
        /\ config' = [config EXCEPT !.parse_multiple = Some(delimiter),
                                    !.parse_multiple_conjunctions = conjunctions]
        /\ UNCHANGED time_units
        /\ Called("parse_multiple", [delimiter |-> delimiter, conjunctions |-> conjunctions])

allow_ago ==
    \E delimiter \in BuilderDelimiters :
        /\ config' = [config EXCEPT !.allow_ago = Some(delimiter)]
        /\ UNCHANGED time_units /\ Called("allow_ago", delimiter)

\* DurationParserBuilder::new() and ConfigBuilder::new()
InitBuilder ==
    /\ config = ConfigNew
    /\ time_units = "None"
    /\ src = [setter \in Setters |-> None]
    /\ calls = 0
    /\ pc = "builder"
    /\ input = <<>>
    /\ current_pos = 0
    /\ current_byte = None
    /\ duration_repr = ReprDefault
    /\ result = NoResult
    /\ duration = [secs |-> <<>>, nanos |-> 0]

NextBuilder ==
    \/ default_time_units
    \/ all_time_units
    \/ default_unit
    \/ allow_delimiter
    \/ disable_exponent
    \/ disable_fraction
    \/ disable_infinity
    \/ number_is_optional
    \/ allow_negative
    \/ parse_multiple
    \/ allow_ago

SpecBuilder == InitBuilder /\ [][NextBuilder]_vars

-----------------------------------------------------------------------------
(* Specification SpecBlock: is_8_digits and parse_8_digits of
   src/src/parsing/repr_parser.rs on blocks of bytes next to the digits *)

\* Bytes that are no digits: '/' and ':' around '0'..'9', 0xF9, 0xFA and 0xFF
\* that carry into the next byte when 0x06 (and a carry) is added, and 'a'.
BlockNonDigits == {47, 58, 249, 250, 255, 97}

\* Blocks of 8 digits: "00000000", "99999999", "01234567".
BlockDigits == {Rep(48, 8), Rep(57, 8), [i \in 1..8 |-> 47 + i]}

MaxNonDigits == 2

\* The blocks of 8 bytes with at most MaxNonDigits bytes that are no digits.
Blocks ==
    {[i \in 1..8 |-> IF i \in DOMAIN f THEN f[i] ELSE block[i]] :
        block \in BlockDigits,
        f \in UNION {[places -> BlockNonDigits] :
                        places \in {q \in SUBSET (1..8) : Cardinality(q) <= MaxNonDigits}}}

\* Inputs shorter than 8 bytes: "", "0000000", "9999999".
ShortRuns == {<<>>, Rep(48, 7), Rep(57, 7)}

\* What follows the first block: nothing, one byte, 7 digits, 8 digits.
BlockTails == {<<>>, B(<<"a">>), Rep(48, 7), B(<<"0", "0", "0", "0", "0", "0", "0", "1">>)}

BlockSrcs ==
    [block : Blocks, tail : BlockTails] \cup [block : ShortRuns, tail : {<<>>}]

\* A value returned by a method of the parser.
Returned(call, value) == [call |-> call, returned |-> value]

\* ReprParser::new(input, config, time_units)
InitBlock ==
    /\ src \in BlockSrcs
    /\ input = src.block \o src.tail
    /\ config = ConfigNew
    /\ time_units = "empty"
    /\ current_pos = 0
    /\ current_byte = ByteAt(input, 0)
    /\ duration_repr = ReprDefault
    /\ pc = "ready"
    /\ result = Returned("new", FALSE)
    /\ duration = [secs |-> <<>>, nanos |-> 0]
    /\ calls = 1

\* A call of is_8_digits(), which takes &self.
ReprIs8Digits ==
    /\ pc = "ready"
    /\ pc' = "tested"
    /\ result' = Returned("is_8_digits", is_8_digits(Cur))
    /\ UNCHANGED <<input, config, time_units, current_pos, current_byte, duration_repr,
                   src, duration, calls>>

\* A call of parse_8_digits(): after Some the loop of parse_whole and
\* parse_fract calls it again, after None the loop is left.
ReprParse8Digits ==
    /\ pc \in {"ready", "tested"}
    /\ LET r == parse_8_digits(Cur)
       IN /\ current_pos' = r.p.current_pos
          /\ current_byte' = r.p.current_byte
          /\ result' = Returned("parse_8_digits", r.value)
          /\ pc' = IF r.value = None THEN "left" ELSE "ready"
    /\ UNCHANGED <<input, config, time_units, duration_repr, src, duration, calls>>

NextBlock ==
    \/ ReprIs8Digits
    \/ ReprParse8Digits

SpecBlock == InitBlock /\ [][NextBlock]_vars

-----------------------------------------------------------------------------
(* Claims about ReprParser::parse, under Spec *)

\* ReprParser::parse returned Ok.
ScanSucceeded == pc \in {"eval", "eval_more", "done", "segment_done"}

\* The call is over: the evaluator returned or the scanner failed.
Finished == pc \in {"done", "segment_done", "scan_failed"}

\* The input is a written number that the configuration lets the scanner read
\* up to the exponent.
ReachesExponent ==
    /\ ~config.disable_exponent /\ ~config.disable_fraction
    /\ src.whole # <<>> \/ src.fract # <<>>

\* C8: the exponent of every representation a successful scan returns lies
\* within [min_exponent, max_exponent] of the configuration; an exponent
\* literal above max_exponent fails with PositiveExponentOverflow, one below
\* min_exponent with NegativeExponentOverflow.
C8_ExponentWithinConfiguredRange ==
    /\ ScanSucceeded =>
           duration_repr.exponent \in config.min_exponent..config.max_exponent
    /\ (Finished /\ ReachesExponent /\ src.exp # None) =>
           /\ SrcExponent(src) > config.max_exponent =>
                  result = Err("PositiveExponentOverflow", 0)
           /\ SrcExponent(src) < config.min_exponent =>
                  result = Err("NegativeExponentOverflow", 0)

\* The bytes start with 'e' or 'E' and, after an optional sign, continue with
\* no ASCII digit.
ExponentWithoutDigit(t) ==
    /\ t # <<>> /\ eq_ignore_ascii_case(t[1], Ord["e"])
    /\ LET signed == Len(t) >= 2 /\ t[2] \in {Ord["+"], Ord["-"]}
           next   == IF signed THEN 3 ELSE 2
       IN Len(t) < next \/ ~is_ascii_digit(t[next])

\* C9: an input whose exponent marker and optional sign are not followed by a
\* digit is never accepted, whether the end of input or another byte such as
\* a time unit follows.
C9_ExponentNeedsDigit ==
    (ReachesExponent /\ src.exp = None /\ ExponentWithoutDigit(src.tail)) =>
        pc \notin {"eval", "done"}

\* The scanner stored a whole part that is not the written one: digits of it
\* were dropped.
WholeDigitsDropped ==
    /\ duration_repr.whole # None /\ duration_repr.digits # None
    /\ Canon(SubSeq(Unwrap(duration_repr.digits), 1, Unwrap(duration_repr.whole)))
           # Canon(src.whole)

\* C10: whenever the scanner dropped digits of the whole part of a
\* non-negative number, the evaluated result is the saturated maximum.
C10_DroppedWholeDigitsSaturate ==
    (pc = "done" /\ ~duration_repr.is_infinite /\ ~duration_repr.is_negative
         /\ WholeDigitsDropped) =>
        result = Ok(U64_MAX, 999999999)

\* The evaluator returned for the segment the scanner read.
Evaluated == pc \in {"done", "segment_done"}

\* The input has no digit in a whole or a fraction part.
NoNumberWritten == src.whole = <<>> /\ src.fract = <<>>

\* floor(whole.fract * 10^exponent) seconds and the nanos behind them,
\* saturated: the duration of a number in a unit of 10^k seconds.
RefDuration(whole, fract, exponent) ==
    LET seconds == Canon(RefSecondsDigits(whole, fract, exponent))
    IN IF NumLeq(seconds, U64_MAX)
       THEN Ok(seconds, DigitsValue(RefNanoDigits(whole, fract, exponent)))
       ELSE Ok(U64_MAX, 999999999)

\* C11 (as the code has it): a representation that is not infinity is without
\* digits (digits is None) exactly when the input has no number, which takes
\* number_is_optional; it is then evaluated as the number 1 (in a unit of
\* 10^k seconds: 10^(exponent + k) seconds).  A written number whose digits
\* are all stripped or zero ("0", "00000000", "0.") has digits (Some, maybe
\* empty) and is evaluated as zero.
C11_ImplicitOneOnlyWithoutNumber ==
    /\ (ScanSucceeded /\ ~duration_repr.is_infinite) =>
           /\ duration_repr.digits = None <=> NoNumberWritten
           /\ duration_repr.digits = None => config.number_is_optional
    /\ (Evaluated /\ ~duration_repr.is_infinite /\ ~duration_repr.is_negative
            /\ duration_repr.digits = None /\ UnitIntegerPart(duration_repr.unit) = 1) =>
           result = RefDuration(<<1>>, <<>>,
                                duration_repr.exponent + UnitExponent(duration_repr.unit))
    /\ (Evaluated /\ ~duration_repr.is_infinite /\ duration_repr.digits # None
            /\ Canon(Unwrap(duration_repr.digits)) = <<>>) =>
           result = Ok(<<>>, 0)

C11_Witness ==
    /\ pc = "done" /\ ~duration_repr.is_infinite /\ duration_repr.digits = None
    /\ config.number_is_optional /\ input = B(<<"n", "s">>)
    /\ result = Ok(<<>>, 1)

\* C11 as stated: the digit buffer of a representation is empty only when
\* number_is_optional is set and the input has no number.
C11_EmptyDigitsOnlyWithoutNumber ==
    (ScanSucceeded /\ ~duration_repr.is_infinite
         /\ (duration_repr.digits = None \/ duration_repr.digits = Some(<<>>))) =>
        config.number_is_optional /\ NoNumberWritten

\* The input is a number whose point has neither a whole digit before it nor a
\* fraction digit after it.
LonePoint == src.point /\ src.whole = <<>> /\ src.fract = <<>>

\* The byte offset of the point of the input.
PointPos == Len(src.sign) + Len(src.whole)

\* The input is a non-negative number with a point and nothing after the
\* fraction part, read by a parser with fractions enabled.
PlainFraction ==
    /\ src.point /\ src.exp = None /\ src.tail = <<>> /\ src.sign # B(<<"-">>)
    /\ src.whole # <<>> \/ src.fract # <<>>
    /\ ~config.disable_fraction

\* C12: an input whose '.' has neither a whole digit before it nor a fraction
\* digit after it fails with a Syntax error at the byte offset of that '.',
\* whatever number_is_optional is; a point with digits on one side only is a
\* number: '.5' is (0, 500_000_000) and '5.' is (5, 0).
C12_LonePointIsSyntaxErrorAtPoint ==
    /\ (LonePoint /\ pc \notin {"start", "sign", "whole", "fract"}) =>
           pc = "scan_failed" /\ result = Err("Syntax", PointPos)
    /\ (PlainFraction /\ Finished) =>
           pc = "done" /\ result = RefDuration(src.whole, src.fract, 0)

C12_Witness ==
    /\ input = B(<<"+", ".">>) /\ config.number_is_optional
    /\ pc = "scan_failed" /\ result = Err("Syntax", 1)

C12_WitnessFraction ==
    /\ input = B(<<"5", ".">>) /\ pc = "done" /\ result = Ok(<<5>>, 0)

\* The input writes a '.' and the parser has fractions disabled.
DisabledFractionMarker == config.disable_fraction /\ src.point

\* The byte offset after the number of the input.
NumberEnd == PointPos + (IF src.point THEN 1 + Len(src.fract) ELSE 0)

\* The input writes 'e' or 'E' right after a number that the scanner reads, and
\* the parser has exponents disabled.
DisabledExponentMarker ==
    /\ config.disable_exponent /\ ~DisabledFractionMarker
    /\ src.whole # <<>> \/ src.fract # <<>>
    /\ \/ src.exp # None
       \/ src.tail # <<>> /\ eq_ignore_ascii_case(src.tail[1], Ord["e"])

\* C13: with disable_fraction a '.' after the optional sign and whole part
\* fails with a Syntax error at that '.', and with disable_exponent an 'e' or
\* 'E' after the number fails with a Syntax error at that byte; the marker is
\* never consumed and no time unit is read from it.
C13_DisabledMarkerIsSyntaxError ==
    /\ DisabledFractionMarker =>
           /\ current_pos <= PointPos /\ pc \notin {"exponent", "delimiter", "unit", "end"}
           /\ Finished => pc = "scan_failed" /\ result = Err("Syntax", PointPos)
    /\ DisabledExponentMarker =>
           /\ current_pos <= NumberEnd /\ pc \notin {"delimiter", "unit", "end"}
           /\ Finished => pc = "scan_failed" /\ result = Err("Syntax", NumberEnd)

C13_Witness ==
    /\ input = B(<<"1", "2", "3", "e", "+", "1">>) /\ config.disable_exponent
    /\ pc = "scan_failed" /\ result = Err("Syntax", 3)

C13_WitnessFraction ==
    /\ input = B(<<"1", "2", "3", ".", "4", "5", "6">>) /\ config.disable_fraction
    /\ pc = "scan_failed" /\ result = Err("Syntax", 3)

\* The length of the run of delimiter bytes at the start of the tail of the
\* input.
TailRun(delimiter) == DelimiterRunEnd(src.tail, 0, delimiter)

\* allow_delimiter is set, parse_multiple is not, and the input is a
\* non-negative number the scanner reads, followed by a run of delimiters.
NumberThenDelimiters ==
    /\ config.allow_delimiter # None /\ config.parse_multiple = None
    /\ src.whole # <<>> \/ src.fract # <<>>
    /\ ~DisabledFractionMarker /\ src.sign # B(<<"-">>)
    /\ src.exp = None /\ TailRun(Unwrap(config.allow_delimiter)) > 0

\* The run of delimiters ends the input.
DelimitersEndInput ==
    NumberThenDelimiters /\ TailRun(Unwrap(config.allow_delimiter)) = Len(src.tail)

\* C14: with allow_delimiter set and parse_multiple not active, a number
\* followed by a run of delimiters and the end of input is accepted as the
\* number in the default unit ('123\n' is 123 s), and a run followed by more
\* bytes is accepted exactly when these bytes are a time unit identifier.
C14_DelimiterRunBeforeEndOrUnit ==
    /\ (DelimitersEndInput /\ Finished) =>
           pc = "done" /\ result = RefDuration(src.whole, src.fract, 0)
    /\ (NumberThenDelimiters /\ ~DelimitersEndInput /\ Finished) =>
           LET run  == TailRun(Unwrap(config.allow_delimiter))
               rest == SubSeq(src.tail, run + 1, Len(src.tail))
           IN IF TimeUnitsLike_get(time_units, rest) # None
              THEN pc = "done" /\ current_pos = Len(input)
              ELSE pc = "scan_failed" /\ result = Err("TimeUnit", NumberEnd + run)

C14_Witness ==
    /\ input = <<49, 50, 51, 10>> /\ config.allow_delimiter # None
    /\ config.parse_multiple = None /\ pc = "done" /\ result = Ok(<<1, 2, 3>>, 0)

\* C14 as stated: a number followed by a run of delimiters and the end of
\* input is not accepted.
C14_DelimiterRunNeedsUnit == DelimitersEndInput => pc \notin {"eval", "done"}

\* parse_multiple is active and the input is one complete segment, a number
\* the scanner reads, followed by delimiters of parse_multiple up to the end of
\* input.
SegmentThenDelimiters ==
    /\ config.parse_multiple # None
    /\ src.whole # <<>> \/ src.fract # <<>>
    /\ ~DisabledFractionMarker /\ src.exp = None
    /\ src.tail # <<>> /\ TailRun(Unwrap(config.parse_multiple)) = Len(src.tail)

\* C15: in parse_multiple mode an input that ends with delimiters after a
\* complete segment is rejected with a Syntax error at the start of the run of
\* delimiters, also when allow_delimiter matches the same bytes.
C15_TrailingDelimitersRejected ==
    (SegmentThenDelimiters /\ pc \notin {"start", "sign", "whole", "fract", "exponent",
                                         "delimiter", "unit", "end"}) =>
        pc = "scan_failed" /\ result = Err("Syntax", NumberEnd)

-----------------------------------------------------------------------------
(* Claims about the parse of several segments, under SpecMultiple *)

\* The scanner is past the number, its fraction, exponent and delimiter run,
\* the table of time units is empty, and a byte is left.
ByteAfterNumber ==
    pc = "unit" /\ current_byte # None /\ TimeUnitsLike_is_empty(time_units)

\* The input is a number and, with no delimiter between, bytes that start
\* with neither a digit nor a delimiter: the byte after the number is no
\* delimiter of parse_multiple and not the start of a next segment after one.
StrayByte ==
    /\ TimeUnitsLike_is_empty(time_units) /\ config.parse_multiple # None
    /\ Len(src.segments) = 2 /\ src.separator = <<>>
    /\ src.segments[1] \in {B(<<"1">>), B(<<"0", ".", "9">>), B(<<".", "5">>)}
    /\ ~is_ascii_digit(src.segments[2][1])
    /\ src.segments[2][1] = Ord["."] => src.segments[1] # B(<<"1">>)

\* The parse of the whole input returned a duration.
Accepted == pc = "done" /\ result.kind = "Ok"

\* C16: with an empty table of time units a byte after the number that is no
\* delimiter of parse_multiple is not accepted: without parse_multiple the
\* parse fails with a TimeUnit error at the position of the byte, and with
\* parse_multiple no input with such a byte is parsed to a duration.
C16_NoByteAfterNumberWithoutUnits ==
    /\ [][(ByteAfterNumber /\ config.parse_multiple = None) =>
              (pc' = "scan_failed" /\ result' = Err("TimeUnit", current_pos))]_vars
    /\ [](StrayByte => ~Accepted)

\* One part of ReprParser::parse, by the place in the call.
ReprStep(p) ==
    CASE p.pc = "start" -> ReprStartStep(p)
      [] p.pc = "sign" -> ReprSignStep(p)
      [] p.pc = "whole" -> ReprWholeStep(p)
      [] p.pc = "fract" -> ReprFractStep(p)
      [] p.pc = "exponent" -> ReprExponentStep(p)
      [] p.pc = "delimiter" -> ReprDelimiterStep(p)
      [] p.pc = "unit" -> ReprUnitStep(p)
      [] p.pc = "end" -> ReprEndStep(p)

\* ReprParser::parse up to its return.
RECURSIVE ReprRun(_)
ReprRun(p) ==
    IF p.pc \in {"eval", "eval_more", "scan_failed"} THEN p ELSE ReprRun(ReprStep(p))

\* The parse of the input of p from its cursor on, call n, with the sum of the
\* segments before: NoResult when call MaxCalls still returns a continuation.
RECURSIVE ParseFrom(_, _, _)
ParseFrom(p, sum, n) ==
    LET q      == ReprRun([p EXCEPT !.pc = "start", !.duration_repr = ReprDefault])
        parsed == Repr_parse(q.duration_repr)
        added  == saturating_add(sum, [secs |-> parsed.secs, nanos |-> parsed.nanos])
    IN IF q.pc = "scan_failed" THEN q.result
       ELSE IF parsed.kind # "Ok" THEN parsed
       ELSE IF q.pc = "eval" THEN Ok(added.secs, added.nanos)
       ELSE IF n >= MaxCalls THEN NoResult
       ELSE ParseFrom(q, added, n + 1)

\* The parse of a segment as an input of its own.
ParseAlone(bytes) ==
    ParseFrom([input |-> bytes, current_pos |-> 0, current_byte |-> ByteAt(bytes, 0),
               duration_repr |-> ReprDefault, pc |-> "start", result |-> NoResult],
              [secs |-> <<>>, nanos |-> 0], 1)

\* The saturating sum of the first n results.
RECURSIVE SumOf(_, _)
SumOf(results, n) ==
    IF n = 0 THEN [secs |-> <<>>, nanos |-> 0]
    ELSE saturating_add(SumOf(results, n - 1),
                        [secs |-> results[n].secs, nanos |-> results[n].nanos])

\* The segment ends with an identifier of the table of time units.
EndsWithUnit(segment) ==
    \E k \in 2..Len(segment) :
        TimeUnitsLike_get(time_units, SubSeq(segment, k, Len(segment))) # None

\* The input is a sequence of segments in parse_multiple mode: delimiters
\* stand between two segments, or the first ends with a time unit and the
\* second starts with a digit.
SequenceOfSegments ==
    /\ config.parse_multiple # None
    /\ \/ src.separator # <<>>
       \/ \A i \in 1..(Len(src.segments) - 1) :
              EndsWithUnit(src.segments[i]) /\ is_ascii_digit(src.segments[i + 1][1])

\* C17: in parse_multiple mode the result for a sequence of segments is the
\* saturating sum of the durations of the segments parsed one by one, and the
\* parse fails when one of the segments fails.
C17_SumOfIndependentSegments ==
    (SequenceOfSegments /\ pc \in {"done", "scan_failed"}) =>
        LET alone == [i \in 1..Len(src.segments) |-> ParseAlone(src.segments[i])]
            sum   == SumOf(alone, Len(alone))
        IN /\ (\A i \in 1..Len(alone) : alone[i].kind = "Ok") =>
                  result = Ok(sum.secs, sum.nanos)
           /\ (\E i \in 1..Len(alone) : alone[i].kind = "Err") => result.kind = "Err"

\* allow_ago is set and the input is a number that parses to a duration,
\* delimiters of allow_ago, and 'ago'.
SegmentThenAgo ==
    /\ config.allow_ago # None
    /\ Len(src.segments) = 2 /\ src.segments[2] = B(<<"a", "g", "o">>)
    /\ src.segments[1] # B(<<"i", "n", "f">>)
    /\ src.separator # <<>>
    /\ \A i \in 1..Len(src.separator) :
           Delimits(Unwrap(config.allow_ago), src.separator[i])
    /\ ParseAlone(src.segments[1]).kind = "Ok"

\* C18: with allow_ago set, a segment followed by delimiters and 'ago' is the
\* segment with the sign flipped: with allow_negative '2h ago' is the negative
\* duration of 7200 s.
C18_AgoFlipsSign ==
    (SegmentThenAgo /\ config.allow_negative /\ pc \in {"done", "scan_failed"}) =>
        LET segment == ParseAlone(src.segments[1])
        IN IF segment.secs = <<>> /\ segment.nanos = 0 THEN result = segment
           ELSE result = [segment EXCEPT !.kind = "OkNegative"]

-----------------------------------------------------------------------------
(* Claims about the builders, under SpecBuilder *)

\* The value a field of the configuration has after the calls recorded in src
\* when every setter wrote its own fields only: the argument of the last call
\* of the setter of the field, and the value of Config::new() when that setter
\* was not called or the field has no setter.
FieldAfterCalls(field) ==
    LET flag(setter) == IF src[setter] = None THEN ConfigNew[field] ELSE TRUE
        last(setter) == IF src[setter] = None THEN ConfigNew[field]
                        ELSE Some(Unwrap(src[setter]))
    IN CASE field = "default_unit" ->
                IF src["default_unit"] = None THEN ConfigNew[field]
                ELSE Unwrap(src["default_unit"])
         [] field = "allow_delimiter" -> last("allow_delimiter")
         [] field = "allow_ago" -> last("allow_ago")
         [] field = "parse_multiple" ->
                IF src["parse_multiple"] = None THEN ConfigNew[field]
                ELSE Some(Unwrap(src["parse_multiple"]).delimiter)
         [] field = "parse_multiple_conjunctions" ->
                IF src["parse_multiple"] = None THEN ConfigNew[field]
                ELSE Unwrap(src["parse_multiple"]).conjunctions
         [] field \in {"disable_exponent", "disable_fraction", "disable_infinity",
                       "number_is_optional", "allow_negative"} -> flag(field)
         [] OTHER -> ConfigNew[field]

\* C19: after any sequence of setter calls every field of the configuration
\* has the value its own setter gave it last, or the value of Config::new()
\* when its setter was not called, so calling a setter twice is calling it
\* once; the choice of time units is the one of the last time unit setter and
\* no configuration setter changes it.
C19_SettersChangeOwnFieldsOnly ==
    pc = "builder" =>
        /\ \A field \in DOMAIN ConfigNew : config[field] = FieldAfterCalls(field)
        /\ time_units = IF src["time_units"] = None THEN "None"
                        ELSE Unwrap(src["time_units"])

C19_Witness ==
    /\ pc = "builder" /\ calls = MaxSetterCalls
    /\ {setter \in Setters : src[setter] # None} = {"time_units", "disable_fraction"}
    /\ config = [ConfigNew EXCEPT !.disable_fraction = TRUE] /\ time_units = "All"

-----------------------------------------------------------------------------
(* The repartition of DurationRepr::parse of src/src/lib.rs, under SpecLib *)

\* The digits of the seconds of a repartition, and the first 9 digits of its
\* nano seconds, zeros where the digits end.
SecondsSpan(parts) == parts.seconds.a \o parts.seconds.b \o Rep(0, parts.seconds.zeros)

NanosSpan(parts) ==
    LET d == Rep(0, MinOf(parts.nanos.zeros, 9)) \o parts.nanos.a \o parts.nanos.b
    IN [i \in 1..9 |-> IF i <= Len(d) THEN d[i] ELSE 0]

\* The exponent moves the point to where the whole part starts, or to where
\* the fraction part ends.
RepartitionBoundary ==
    \/ duration_repr.exponent < 0 /\ -duration_repr.exponent = Len(IrWhole)
    \/ duration_repr.exponent > 0 /\ duration_repr.exponent = Len(IrFract)

\* C20: for the whole digits W, fraction digits F and exponent E of every
\* evaluated number, the slices of the five cases are the digits of
\* v = (W.F) * 10^E before the point and its first 9 digits after the point,
\* and the result is (floor(v), floor of the fraction of v in nano seconds), or
\* the maximum when the seconds are above u64::MAX; so at the boundaries
\* |E| = len(W) and E = len(F).
C20_RepartitionIsShiftedNumber ==
    LibEvaluatedNumber =>
        LET parts == Repartition(IrWhole, IrFract, duration_repr.exponent)
        IN /\ Canon(SecondsSpan(parts)) = IrSeconds
           /\ NanosSpan(parts) = RefNanoDigits(IrWhole, IrFract, duration_repr.exponent)
           /\ ~duration_repr.is_negative =>
                  result = RefDuration(IrWhole, IrFract, duration_repr.exponent)

C20_Witness ==
    /\ LibEvaluatedNumber /\ RepartitionBoundary
    /\ IrWhole = <<1, 0>> /\ IrFract = <<9>> /\ duration_repr.exponent = -2
    /\ result = Ok(<<>>, 109000000)

C20_WitnessFractionBoundary ==
    /\ LibEvaluatedNumber /\ RepartitionBoundary
    /\ IrWhole = <<1>> /\ IrFract = <<0, 9>> /\ duration_repr.exponent = 2
    /\ result = Ok(<<1, 0, 9>>, 0)

-----------------------------------------------------------------------------
(* Claims about the digit buffer of ReprParser, under Spec *)

\* parse_whole ran: the representation has a whole part.
WholeScanned == duration_repr.whole # None /\ duration_repr.digits # None

\* The digits stored for the whole part.
StoredWhole == SubSeq(Unwrap(duration_repr.digits), 1, Unwrap(duration_repr.whole))

\* The capacity ReprParser::parse gives the digits of the whole part before
\* the remaining input length caps it: |min_exponent| + 32.
WholeMax == (IF config.min_exponent < 0 THEN -config.min_exponent ELSE config.min_exponent) + 32

\* C21: the stored whole digits are empty when the whole part is all zeros;
\* a run of fewer than 8 digits is stored without leading zero, a longer run
\* with at most 7 of them (the first nonzero block of 8 digits is written
\* whole); a run of at most |min_exponent| + 32 digits is stored as the same
\* integer; and Whole is the number of stored digits.
C21_StoredWholeIsWrittenNumber ==
    WholeScanned =>
        /\ Unwrap(duration_repr.whole) <= Len(Unwrap(duration_repr.digits))
        /\ pc = "fract" => Unwrap(duration_repr.whole) = Len(Unwrap(duration_repr.digits))
        /\ Canon(src.whole) = <<>> => StoredWhole = <<>>
        /\ Len(src.whole) < 8 => StoredWhole = Canon(src.whole)
        /\ StoredWhole # <<>> => FirstNonZero(StoredWhole) <= 8
        /\ Len(src.whole) <= WholeMax => Canon(StoredWhole) = Canon(src.whole)

C21_Witness ==
    /\ pc = "fract" /\ src.whole = <<0, 0, 0, 0, 0, 0, 1, 0>>
    /\ WholeScanned /\ StoredWhole = <<0, 0, 0, 0, 0, 0, 1, 0>>

C21_WitnessStripped ==
    /\ pc = "fract" /\ src.whole = Rep(0, 8) \o Rep(1, 8)
    /\ WholeScanned /\ StoredWhole = Rep(1, 8)

\* C21 as stated: the stored whole digits never start with a zero and are the
\* written integer, for every length of the run.
C21_NoLeadingZeroStored ==
    WholeScanned =>
        /\ StoredWhole = <<>> \/ StoredWhole[1] # 0
        /\ Canon(StoredWhole) = Canon(src.whole)
        /\ pc = "fract" => Unwrap(duration_repr.whole) = Len(Unwrap(duration_repr.digits))

\* parse_fract ran: the representation has a fraction part.
FractScanned == duration_repr.fract # None /\ duration_repr.digits # None

\* The digits stored in the span of the fraction part.
StoredFract ==
    SubSeq(Unwrap(duration_repr.digits), Unwrap(duration_repr.fract)[1] + 1,
           Unwrap(duration_repr.fract)[2])

\* The fraction digits of the input fit the capacity reserved for them, which
\* holds the rest of the input up to max_exponent + 25 bytes.
FractFits == Len(src.fract) <= config.max_exponent + 25

\* C22: a scanned fraction of k digits that fits the capacity is stored as
\* exactly these k digits in input order, leading zeros included, in the span
\* Fract(start, start + k), on the block path (k >= 8) and on the byte path.
C22_FractionStoredAsWritten ==
    (FractScanned /\ FractFits) =>
        /\ Unwrap(duration_repr.fract)[2] = Unwrap(duration_repr.fract)[1] + Len(src.fract)
        /\ StoredFract = src.fract

C22_Witness ==
    /\ pc = "exponent" /\ src.fract = Rep(0, 8) \o <<1>> /\ src.whole = <<9>>
    /\ FractScanned /\ duration_repr.fract = Some(<<1, 10>>)
    /\ StoredFract = Rep(0, 8) \o <<1>>

C22_WitnessBytePath ==
    /\ pc = "exponent" /\ src.fract = <<0, 9>> /\ src.whole = <<>>
    /\ FractScanned /\ duration_repr.fract = Some(<<0, 2>>) /\ StoredFract = <<0, 9>>


-----------------------------------------------------------------------------
(* Claims about is_8_digits and parse_8_digits, under SpecBlock *)

\* At least 8 bytes remain at the cursor and each of the next 8 is an ASCII
\* digit.
EightDigitsAhead ==
    /\ Len(input) - current_pos >= 8
    /\ \A i \in 1..8 : is_ascii_digit(input[current_pos + i])

\* C23: is_8_digits returns true exactly when at least 8 bytes remain and each
\* of the next 8 bytes is an ASCII digit: the masked test on the u64 has no
\* false positive from a carry between bytes and no false negative.
C23_MaskedTestIsEightDigits ==
    (pc = "tested" /\ result.call = "is_8_digits") => (result.returned <=> EightDigitsAhead)

C23_Witness ==
    /\ pc = "tested" /\ result = Returned("is_8_digits", FALSE)
    /\ input = <<57, 57, 57, 250, 57, 57, 57, 57>> /\ current_pos = 0

C23_WitnessDigits ==
    /\ pc = "tested" /\ result = Returned("is_8_digits", TRUE)
    /\ current_pos = 8 /\ Len(input) = 16


\* C24: parse_8_digits either returns the eight digit values packed one per
\* byte in input order, the first digit in the least significant byte, with
\* the cursor advanced by exactly 8 and current_byte the byte at the new
\* position, or returns None and leaves current_pos, current_byte and the
\* remainder as they were; it succeeds exactly when is_8_digits is true.
C24_Parse8DigitsAllOrNothing ==
    [][ReprParse8Digits =>
          IF is_8_digits(Cur)
          THEN /\ result'.returned = Some([i \in 1..8 |-> input[current_pos + i] - 48])
               /\ current_pos' = current_pos + 8
               /\ current_byte' = ByteAt(input, current_pos + 8)
          ELSE /\ result'.returned = None
               /\ current_pos' = current_pos /\ current_byte' = current_byte
               /\ SubSeq(input', current_pos' + 1, Len(input')) = get_remainder(Cur)]_vars

C24_Witness ==
    /\ result = Returned("parse_8_digits", Some(<<0, 0, 0, 0, 0, 0, 0, 1>>))
    /\ current_pos = 16 /\ current_byte = None /\ pc = "ready"

C24_WitnessNone ==
    /\ result = Returned("parse_8_digits", None) /\ pc = "left"
    /\ input = B(<<"a", "0", "0", "0", "0", "0", "0", "0">>)
    /\ current_pos = 0 /\ current_byte = Some(97)


-----------------------------------------------------------------------------
(* Claims about the spans of the representation, under Spec *)

\* C25: in the representation of a successful scan with a whole and a
\* fraction part the fraction span starts where the whole span ends and ends
\* at the length of the digit buffer; with a fraction part only it starts at 0.
C25_FractionSpanFollowsWhole ==
    (ScanSucceeded /\ duration_repr.fract # None) =>
        /\ duration_repr.digits # None
        /\ Unwrap(duration_repr.fract)[2] = Len(Unwrap(duration_repr.digits))
        /\ Unwrap(duration_repr.fract)[1] =
               (IF duration_repr.whole = None THEN 0 ELSE Unwrap(duration_repr.whole))

C25_Witness ==
    /\ input = B(<<"1", "2", "3", ".", "4", "5", "6">>) /\ pc = "eval"
    /\ duration_repr.whole = Some(3) /\ duration_repr.fract = Some(<<3, 6>>)
    /\ duration_repr.digits = Some(<<1, 2, 3, 4, 5, 6>>)

C25_WitnessFractionOnly ==
    /\ src.whole = <<>> /\ src.fract = <<0, 9>> /\ ScanSucceeded
    /\ duration_repr.whole = None /\ duration_repr.fract = Some(<<0, 2>>)


-----------------------------------------------------------------------------
(* Claims about the cursor of ReprParser, under Spec *)

\* The cursor is inside the input or at its end, and current_byte is the byte
\* at current_pos, None exactly at the end of the input.
CursorOnInput ==
    /\ 0 <= current_pos /\ current_pos <= Len(input)
    /\ current_byte = ByteAt(input, current_pos)
    /\ current_byte = None <=> current_pos = Len(input)

\* ReprParser::parse returned Ok((duration_repr, None)).
ReturnedWithoutContinuation == pc \in {"eval", "done"}

\* C26: at every step of a scan 0 <= current_pos <= input length, current_byte
\* is the byte at current_pos (None exactly at the end of the input) and
\* current_pos never decreases; when parse returns Ok without a continuation,
\* current_pos is the input length.
C26_CursorMovesForwardOnInput ==
    /\ [](CursorOnInput /\ (ReturnedWithoutContinuation => current_pos = Len(input)))
    /\ [][current_pos' >= current_pos]_vars

C26_Witness ==
    /\ src.whole = <<9>> /\ src.tail = B(<<"n", "s">>) /\ src.sign = <<>> /\ ~src.point
    /\ pc = "eval" /\ current_pos = 3 /\ current_byte = None
    /\ duration_repr.unit = "NanoSecond"


-----------------------------------------------------------------------------
(* Claims about the infinity token, under Spec *)

\* Infinity is enabled and the input is 'inf' in any letter case after the
\* sign, followed by whatever.
InfInput ==
    /\ ~config.disable_infinity
    /\ src.whole = <<>> /\ ~src.point /\ src.exp = None /\ Len(src.tail) >= 3
    /\ \A i \in 1..3 : eq_ignore_ascii_case(src.tail[i], INFINITY[i])

\* The bytes after 'inf' and the offset of the first of them.
AfterInf == SubSeq(src.tail, 4, Len(src.tail))

InfOffset == Len(src.sign) + 3

\* The length of the longest prefix of 'inity' the bytes after 'inf' start
\* with, in any letter case.
InityPrefix ==
    LET fits == {m \in 0..MinOf(5, Len(AfterInf)) :
                    \A i \in 1..m : eq_ignore_ascii_case(AfterInf[i], INITY[i])}
    IN CHOOSE m \in fits : \A o \in fits : o <= m

\* The scanner returned: Ok or an error.
ScanOver == pc \in {"eval", "eval_more", "scan_failed"}

\* The representation of infinity: is_infinite, no digits, exponent 0.
InfiniteRepr ==
    /\ duration_repr.is_infinite /\ duration_repr.digits = None
    /\ duration_repr.whole = None /\ duration_repr.fract = None
    /\ duration_repr.exponent = 0

\* C27: after 'inf' the scanner takes nothing more or the complete 'inity'.
\* A proper prefix of 'inity' followed by the end of input or another byte is
\* a Syntax error at that position; the token at the end of input is
\* accepted; a byte after the token is a Syntax error at its position, except
\* a delimiter in parse_multiple mode, and then an accepted token was followed
\* by the delimiter and returns the continuation; an accepted token gives
\* is_infinite, no digits and exponent 0.
C27_InfOrInfinityOnly ==
    (InfInput /\ ScanOver) =>
        LET m    == InityPrefix
            next == IF Len(AfterInf) > m THEN Some(AfterInf[m + 1]) ELSE None
        IN /\ pc # "scan_failed" => InfiniteRepr
           /\ m \in 1..4 => pc = "scan_failed" /\ result = Err("Syntax", InfOffset + m)
           /\ (m \in {0, 5} /\ next = None) => pc = "eval" /\ current_pos = Len(input)
           /\ (m \in {0, 5} /\ next # None) =>
                  IF config.parse_multiple # None
                         /\ Delimits(Unwrap(config.parse_multiple), Unwrap(next))
                  THEN pc # "scan_failed" =>
                           /\ pc = "eval_more" /\ current_pos > InfOffset + m
                           /\ ~Delimits(Unwrap(config.parse_multiple), Unwrap(current_byte))
                  ELSE pc = "scan_failed" /\ result = Err("Syntax", InfOffset + m)

C27_Witness ==
    /\ input = B(<<"i", "n", "f", "i", "n">>) /\ ~config.disable_infinity
    /\ pc = "scan_failed" /\ result = Err("Syntax", 5)

C27_WitnessNextByte ==
    /\ input = B(<<"i", "n", "f", "1", ".", "0">>) /\ ~config.disable_infinity
    /\ pc = "scan_failed" /\ result = Err("Syntax", 3)

C27_WitnessMultiple ==
    /\ input = B(<<"i", "n", "f", "i", "n", "i", "t", "y", " ", "1">>)
    /\ config.parse_multiple # None /\ pc = "eval_more" /\ current_pos = 9 /\ InfiniteRepr


-----------------------------------------------------------------------------
(* Claims about the time unit identifier, under Spec *)

\* The table of time units is not empty and the input is a number the scanner
\* reads, without exponent, followed by bytes that do not start an exponent.
NumberThenBytes ==
    /\ time_units # "empty"
    /\ src.whole # <<>> \/ src.fract # <<>>
    /\ ~DisabledFractionMarker /\ src.exp = None
    /\ src.tail # <<>> /\ ~eq_ignore_ascii_case(src.tail[1], Ord["e"])

\* The length of the delimiter run of allow_delimiter after the number.
SkippedRun ==
    IF config.allow_delimiter = None THEN 0 ELSE TailRun(Unwrap(config.allow_delimiter))

\* The bytes after the number and the delimiter run.
AfterNumber == SubSeq(src.tail, SkippedRun + 1, Len(src.tail))

\* The first bytes of bytes up to a delimiter or an ASCII digit.
UpToDelimiterOrDigit(bytes, delimiter) ==
    LET ends == {n \in 0..Len(bytes) :
                    /\ \A i \in 1..n : bytes[i] \notin delimiter /\ ~is_ascii_digit(bytes[i])
                    /\ n < Len(bytes) => bytes[n + 1] \in delimiter \/ is_ascii_digit(bytes[n + 1])}
    IN SubSeq(bytes, 1, CHOOSE n \in ends : TRUE)

\* The identifier the claim has looked up.
Identifier ==
    IF config.parse_multiple = None THEN AfterNumber
    ELSE UpToDelimiterOrDigit(AfterNumber, Unwrap(config.parse_multiple))

\* C28: without parse_multiple and with a non-empty table the whole remainder
\* after the number and the delimiter run is looked up as one identifier,
\* byte for byte: a unit of the table is carried by the representation with
\* its multiplier and the cursor is at the end of input, anything else is a
\* TimeUnit error at the offset where the identifier starts.  With
\* parse_multiple the identifier ends at the next delimiter or ASCII digit,
\* and an empty identifier keeps the default unit.
C28_RemainderIsUnitIdentifier ==
    (NumberThenBytes /\ AfterNumber # <<>> /\ ScanOver) =>
        LET unit == TimeUnits_get(Identifier)
        IN IF Identifier = <<>>
           THEN pc # "scan_failed" =>
                    /\ duration_repr.unit = config.default_unit
                    /\ duration_repr.multiplier = ReprDefault.multiplier
           ELSE IF unit = None
           THEN pc = "scan_failed" /\ result = Err("TimeUnit", NumberEnd + SkippedRun)
           ELSE /\ pc # "scan_failed" =>
                       /\ duration_repr.unit = Unwrap(unit).unit
                       /\ duration_repr.multiplier = Unwrap(unit).multiplier
                /\ config.parse_multiple = None => pc = "eval" /\ current_pos = Len(input)

C28_Witness ==
    /\ input = B(<<"1", "M">>) /\ config.parse_multiple = None /\ time_units = "systemd"
    /\ pc = "eval" /\ duration_repr.unit = "Month" /\ current_pos = 2

C28_WitnessCase ==
    /\ input = B(<<"1", "S">>) /\ config.parse_multiple = None /\ time_units = "systemd"
    /\ pc = "scan_failed" /\ result = Err("TimeUnit", 1)

C28_WitnessMultiple ==
    /\ input = B(<<"1", "m", "s", " ", "1">>) /\ config.parse_multiple # None
    /\ time_units = "systemd" /\ pc = "eval_more" /\ duration_repr.unit = "MilliSecond"

C28_WitnessEmptyIdentifier ==
    /\ input = B(<<"1", " ", "1">>) /\ config.parse_multiple # None
    /\ time_units = "systemd" /\ pc = "eval_more" /\ current_pos = 2
    /\ duration_repr.unit = config.default_unit


-----------------------------------------------------------------------------
(* Claims about the progress of ReprParser::parse, under Spec *)

\* C29: a call of ReprParser::parse that returns Ok with a continuation has
\* advanced the cursor by at least one byte (the call of Spec starts at 0), for
\* every configuration, number_is_optional with an empty table of time units
\* included, so that parsing segment after segment comes to an end.
C29_ContinuationAdvancesCursor == pc = "eval_more" => current_pos > 0


-----------------------------------------------------------------------------
(* Claims about the writes into the digit buffer, under Spec *)

\* The capacity of the vector ReprParser::parse hands to parse_whole.
WholeCapacity == MinOf(WholeMax, Len(input) - current_pos)

\* Every stored digit is in 0..=9 and the vector is within its capacity.
DigitsInBuffer ==
    duration_repr.digits # None =>
        /\ \A i \in 1..Len(Unwrap(duration_repr.digits)) :
               Unwrap(duration_repr.digits)[i] \in 0..9
        /\ Len(Unwrap(duration_repr.digits)) <= duration_repr.capacity

\* parse_whole ran in this step: its blocks of 8 digits are written inside the
\* capacity, which is also the length set after them.
WholeBlocksInsideCapacity ==
    (ReprParseWhole /\ duration_repr'.whole # None) =>
        8 * WholeBlocksWritten(input, current_pos, WholeCapacity) <= WholeCapacity

\* parse_fract ran in this step: its blocks are written from the length of the
\* vector on, inside the capacity of the vector it was given.
FractBlocksInsideCapacity ==
    (ReprParseFract /\ duration_repr'.fract # None) =>
        LET q     == ReserveForFract(advance(Cur))
            start == Len(Unwrap(q.duration_repr.digits))
            spare == q.duration_repr.capacity - start
        IN start + 8 * FractBlocksWritten(input, q.current_pos, spare)
               <= q.duration_repr.capacity

\* C30: in parse_whole and parse_fract every block of 8 digits is written
\* inside the reserved capacity, start + 8 * (blocks written) <= capacity, for
\* every length of the input and also for capacities that are no multiple of
\* 8, and every stored digit is in 0..=9.
C30_BlockWritesInsideCapacity ==
    /\ []DigitsInBuffer
    /\ [][WholeBlocksInsideCapacity /\ FractBlocksInsideCapacity]_vars

C30_Witness ==
    /\ pc = "fract" /\ src.whole = Rep(1, 1056) /\ config.min_exponent = -1022
    /\ Len(Unwrap(duration_repr.digits)) = 1048 /\ duration_repr.capacity = 1054

C30_WitnessFract ==
    /\ pc = "exponent" /\ src.fract = Rep(1, 1056) /\ config.max_exponent = 1023
    /\ duration_repr.fract = Some(<<1, 1049>>) /\ duration_repr.capacity = 1054


====
